---------------------------- MODULE Spec2Model ----------------------------
(***************************************************************************)
(* Lock-free doubly linked list (sunbains/lockfree-list).                  *)
(*                                                                         *)
(* Two list classes are modelled over the same state variables:           *)
(*   - Lock_free_list      (src/include/lockfreelist.h): plain pointers;   *)
(*   - ut::Lock_free_list  (src/unnamed/part_003): tagged words, the       *)
(*     actions and helpers of which carry the prefix T.                    *)
(* Every atomic load, store and compare-exchange of the source is one      *)
(* step of the thread that executes it.  The __builtin_prefetch hints and  *)
(* the loads made only to feed them have no effect on the state and are    *)
(* left out.                                                               *)
(***************************************************************************)
EXTENDS Naturals, Sequences, FiniteSets

\* Bounds of the model.
NumNodes == 3
NumThreads == 2

Nodes == 1..NumNodes
Threads == 1..NumThreads
\* nullptr
Null == 0

VARIABLES
  head,     \* m_head
  tail,     \* m_tail
  next,     \* next[n]: n->m_next
  prev,     \* prev[n]: n->m_prev
  pc,       \* pc[t]: the statement thread t executes next
  loc,      \* loc[t]: the arguments and local variables of thread t's call
  fresh,    \* nodes never handed to the list (history)
  rmBy,     \* rmBy[n]: the threads that have called remove(n) (history)
  removed,  \* nodes for which a remove call has returned (history)
  ret,      \* ret[n]: what insert_after(_, n) returned (history)
  orig      \* the list as initially built, in forward order (history)
            \* (SpecSeq*: the sequence the calls made so far are to leave)

vars == <<head, tail, next, prev, pc, loc, fresh, rmBy, removed, ret, orig>>
mem == <<head, tail, next, prev>>
hist == <<fresh, rmBy, removed, ret, orig>>

\* No call in progress: no arguments, no locals.  solo marks a call that is
\* made while no other call is in progress and that no other call overlaps.
\* cur and iprev are the m_node and m_prev of the iterator a thread holds, seen
\* the nodes it has dereferenced, snap the nodes reachable when begin() returned.
\* konst tells a const_iterator from an iterator, log records the operators
\* applied to the iterator, and pred is the set of nodes that satisfy the
\* predicate given to find_if.
NoLocals ==
  [node |-> Null, target |-> Null, lprev |-> Null, lnext |-> Null, old |-> Null, exp |-> Null,
   cur |-> Null, solo |-> FALSE, iprev |-> Null, seen |-> <<>>, snap |-> {},
   konst |-> FALSE, log |-> <<>>, pred |-> {}]

Goto(t, label) == pc' = [pc EXCEPT ![t] = label]
Return(t) == pc' = [pc EXCEPT ![t] = "idle"] /\ loc' = [loc EXCEPT ![t] = NoLocals]
AllIdle == \A t \in Threads : pc[t] = "idle"

RECURSIVE WalkFrom(_, _, _)
\* The nodes visited by  for (cur = n; cur; cur = cur->m_next), cut after k nodes.
WalkFrom(nx, n, k) ==
  IF n = Null \/ k = 0 THEN <<>> ELSE <<n>> \o WalkFrom(nx, nx[n], k - 1)

\* The forward traversal from head; a cycle shows as a walk longer than NumNodes.
Walk == WalkFrom(next, head, NumNodes + 1)
SeqSet(s) == {s[i] : i \in 1..Len(s)}
Reach == SeqSet(Walk)
NoDup(s) == \A i, j \in 1..Len(s) : i # j => s[i] # s[j]
Without(s, n) == SelectSeq(s, LAMBDA x : x # n)

\* The statements of remove; every other statement but "idle" belongs to a call
\* that links loc[t].node into the list.
RemovePcs ==
  {"rm_load_prev", "rm_load_next", "rm_unlink", "rm_relink",
   "trm_load_prev", "trm_load_next", "trm_expect", "trm_cas", "trm_load_nprev", "trm_cas_nprev"}
\* A member as its owner knows it: in the list, and its insertion has returned.
Member(n) ==
  /\ n \in Reach
  /\ \A t \in Threads : loc[t].node = n => pc[t] \in RemovePcs \cup {"idle"}


\* The constructor: an empty list, no call in progress.
InitHist ==
  /\ rmBy = [n \in Nodes |-> {}]
  /\ removed = {}
  /\ ret = [n \in Nodes |-> "none"]
InitEmpty ==
  /\ head = Null /\ tail = Null
  /\ next = [n \in Nodes |-> Null]
  /\ prev = [n \in Nodes |-> Null]
  /\ pc = [t \in Threads |-> "idle"]
  /\ loc = [t \in Threads |-> NoLocals]
  /\ fresh = Nodes
  /\ orig = <<>>
  /\ InitHist

\* The list 1, 2, ..., k as push_back(1); ...; push_back(k) by one thread leaves it.
ListOf(k) ==
  /\ head = 1 /\ tail = k
  /\ next = [n \in Nodes |-> IF n < k THEN n + 1 ELSE Null]
  /\ prev = [n \in Nodes |-> IF n <= k THEN n - 1 ELSE Null]
  /\ pc = [t \in Threads |-> "idle"]
  /\ loc = [t \in Threads |-> NoLocals]
  /\ fresh = Nodes \ (1..k)
  /\ orig = [i \in 1..k |-> i]
  /\ InitHist

-----------------------------------------------------------------------------
(* Lock_free_list::push_front, lockfreelist.h:250-279 *)

PushFrontCall(t, n) ==
  /\ pc[t] = "idle" /\ n \in fresh
  /\ fresh' = fresh \ {n}
  /\ loc' = [loc EXCEPT ![t] = [NoLocals EXCEPT !.node = n]]
  /\ Goto(t, "pf_init_next")
  /\ UNCHANGED <<mem, rmBy, removed, ret, orig>>

\* node->m_next.store(nullptr)
PushFrontInitNext(t) ==
  /\ pc[t] = "pf_init_next"
  /\ next' = [next EXCEPT ![loc[t].node] = Null]
  /\ Goto(t, "pf_init_prev")
  /\ UNCHANGED <<head, tail, prev, loc, hist>>

\* node->m_prev.store(nullptr)
PushFrontInitPrev(t) ==
  /\ pc[t] = "pf_init_prev"
  /\ prev' = [prev EXCEPT ![loc[t].node] = Null]
  /\ Goto(t, "pf_load")
  /\ UNCHANGED <<head, tail, next, loc, hist>>

\* old_head = m_head.load()
PushFrontLoadHead(t) ==
  /\ pc[t] = "pf_load"
  /\ loc' = [loc EXCEPT ![t].old = head]
  /\ Goto(t, "pf_store")
  /\ UNCHANGED <<mem, hist>>

\* node->m_next.store(old_head)
PushFrontStoreNext(t) ==
  /\ pc[t] = "pf_store"
  /\ next' = [next EXCEPT ![loc[t].node] = loc[t].old]
  /\ Goto(t, "pf_cas")
  /\ UNCHANGED <<head, tail, prev, loc, hist>>

\* A buggy variant: the head is stored without being compared.
PushFrontCasBlind(t) ==
  /\ pc[t] = "pf_cas"
  /\ head' = loc[t].node
  /\ Goto(t, "pf_fix")
  /\ UNCHANGED <<tail, next, prev, loc, hist>>

\* m_head.compare_exchange_weak(old_head, node)
PushFrontCas(t) ==
  /\ pc[t] = "pf_cas"
  /\ IF head = loc[t].old
       THEN head' = loc[t].node /\ Goto(t, "pf_fix")
       ELSE head' = head /\ Goto(t, "pf_load")
  /\ UNCHANGED <<tail, next, prev, loc, hist>>

\* compare_exchange_weak may fail although the values are equal.
PushFrontCasSpurious(t) ==
  /\ pc[t] = "pf_cas" /\ head = loc[t].old
  /\ Goto(t, "pf_load")
  /\ UNCHANGED <<mem, loc, hist>>

\* A buggy variant: the first node of a list is not made its tail.
PushFrontFixNoTail(t) ==
  /\ pc[t] = "pf_fix"
  /\ IF loc[t].old # Null
       THEN prev' = [prev EXCEPT ![loc[t].old] = loc[t].node]
       ELSE prev' = prev
  /\ Return(t)
  /\ UNCHANGED <<head, tail, next, hist>>

\* old_head->m_prev.store(node), or m_tail.store(node) on an empty list; return
PushFrontFix(t) ==
  /\ pc[t] = "pf_fix"
  /\ IF loc[t].old # Null
       THEN prev' = [prev EXCEPT ![loc[t].old] = loc[t].node] /\ tail' = tail
       ELSE tail' = loc[t].node /\ prev' = prev
  /\ Return(t)
  /\ UNCHANGED <<head, next, hist>>

PushFront(t) ==
  \/ PushFrontInitNext(t) \/ PushFrontInitPrev(t) \/ PushFrontLoadHead(t)
  \/ PushFrontStoreNext(t) \/ PushFrontCas(t) \/ PushFrontCasSpurious(t)
  \/ PushFrontFix(t)

-----------------------------------------------------------------------------
(* Lock_free_list::remove, lockfreelist.h:282-318 *)

\* remove(n) called on a node that is in the list; with excl, on one that no
\* other remove call was given.
RemoveCall(t, n, excl) ==
  /\ pc[t] = "idle" /\ Member(n)
  /\ excl => rmBy[n] = {}
  /\ rmBy' = [rmBy EXCEPT ![n] = @ \cup {t}]
  /\ loc' = [loc EXCEPT ![t] = [NoLocals EXCEPT !.node = n]]
  /\ Goto(t, "rm_load_prev")
  /\ UNCHANGED <<mem, fresh, removed, ret, orig>>

\* prev = node->m_prev.load()
RemoveLoadPrev(t) ==
  /\ pc[t] = "rm_load_prev"
  /\ loc' = [loc EXCEPT ![t].lprev = prev[loc[t].node]]
  /\ Goto(t, "rm_load_next")
  /\ UNCHANGED <<mem, hist>>

\* next = node->m_next.load()
RemoveLoadNext(t) ==
  /\ pc[t] = "rm_load_next"
  /\ loc' = [loc EXCEPT ![t].lnext = next[loc[t].node]]
  /\ Goto(t, "rm_unlink")
  /\ UNCHANGED <<mem, hist>>

\* A buggy variant: the head is left alone when the head node is removed.
RemoveUnlinkNoHead(t) ==
  /\ pc[t] = "rm_unlink"
  /\ IF loc[t].lprev # Null
       THEN next' = [next EXCEPT ![loc[t].lprev] = loc[t].lnext]
       ELSE next' = next
  /\ Goto(t, "rm_relink")
  /\ UNCHANGED <<head, tail, prev, loc, hist>>

\* prev->m_next.store(next), or m_head.compare_exchange_strong(node, next)
RemoveUnlink(t) ==
  /\ pc[t] = "rm_unlink"
  /\ IF loc[t].lprev # Null
       THEN next' = [next EXCEPT ![loc[t].lprev] = loc[t].lnext] /\ head' = head
       ELSE /\ head' = IF head = loc[t].node THEN loc[t].lnext ELSE head
            /\ next' = next
  /\ Goto(t, "rm_relink")
  /\ UNCHANGED <<tail, prev, loc, hist>>

\* A buggy variant: the tail is left alone when the last node is removed.
RemoveRelinkNoTail(t) ==
  /\ pc[t] = "rm_relink"
  /\ IF loc[t].lnext # Null
       THEN prev' = [prev EXCEPT ![loc[t].lnext] = loc[t].lprev]
       ELSE prev' = prev
  /\ removed' = removed \cup {loc[t].node}
  /\ Return(t)
  /\ UNCHANGED <<head, tail, next, fresh, rmBy, ret, orig>>

\* next->m_prev.store(prev), or m_tail.compare_exchange_strong(node, prev); return
RemoveRelink(t) ==
  /\ pc[t] = "rm_relink"
  /\ IF loc[t].lnext # Null
       THEN prev' = [prev EXCEPT ![loc[t].lnext] = loc[t].lprev] /\ tail' = tail
       ELSE /\ tail' = IF tail = loc[t].node THEN loc[t].lprev ELSE tail
            /\ prev' = prev
  /\ removed' = removed \cup {loc[t].node}
  /\ Return(t)
  /\ UNCHANGED <<head, next, fresh, rmBy, ret, orig>>

Remove(t) ==
  \/ RemoveLoadPrev(t) \/ RemoveLoadNext(t) \/ RemoveUnlink(t) \/ RemoveRelink(t)

-----------------------------------------------------------------------------
(* Lock_free_list::push_back, lockfreelist.h:321-356 *)

PushBackCall(t, n) ==
  /\ pc[t] = "idle" /\ n \in fresh
  /\ fresh' = fresh \ {n}
  /\ loc' = [loc EXCEPT ![t] = [NoLocals EXCEPT !.node = n]]
  /\ Goto(t, "pb_init_next")
  /\ UNCHANGED <<mem, rmBy, removed, ret, orig>>

\* node->m_next.store(nullptr)
PushBackInitNext(t) ==
  /\ pc[t] = "pb_init_next"
  /\ next' = [next EXCEPT ![loc[t].node] = Null]
  /\ Goto(t, "pb_init_prev")
  /\ UNCHANGED <<head, tail, prev, loc, hist>>

\* node->m_prev.store(nullptr)
PushBackInitPrev(t) ==
  /\ pc[t] = "pb_init_prev"
  /\ prev' = [prev EXCEPT ![loc[t].node] = Null]
  /\ Goto(t, "pb_load")
  /\ UNCHANGED <<head, tail, next, loc, hist>>

\* old_tail = m_tail.load(); if (old_tail == nullptr) ...
PushBackLoadTail(t) ==
  /\ pc[t] = "pb_load"
  /\ loc' = [loc EXCEPT ![t].old = tail]
  /\ Goto(t, IF tail = Null THEN "pb_empty" ELSE "pb_store_prev")
  /\ UNCHANGED <<mem, hist>>

\* if (m_head.load() == nullptr) ... else continue
PushBackLoadHead(t) ==
  /\ pc[t] = "pb_empty"
  /\ Goto(t, IF head = Null THEN "pb_empty_store" ELSE "pb_load")
  /\ UNCHANGED <<mem, loc, hist>>

\* node->m_next.store(nullptr)
PushBackEmptyStore(t) ==
  /\ pc[t] = "pb_empty_store"
  /\ next' = [next EXCEPT ![loc[t].node] = Null]
  /\ Goto(t, "pb_empty_cas")
  /\ UNCHANGED <<head, tail, prev, loc, hist>>

\* m_head.compare_exchange_weak(null_node, node); on failure continue
PushBackEmptyCas(t) ==
  /\ pc[t] = "pb_empty_cas"
  /\ IF head = Null
       THEN head' = loc[t].node /\ Goto(t, "pb_empty_tail")
       ELSE head' = head /\ Goto(t, "pb_load")
  /\ UNCHANGED <<tail, next, prev, loc, hist>>

PushBackEmptyCasSpurious(t) ==
  /\ pc[t] = "pb_empty_cas" /\ head = Null
  /\ Goto(t, "pb_load")
  /\ UNCHANGED <<mem, loc, hist>>

\* m_tail.store(node); return
PushBackEmptyTail(t) ==
  /\ pc[t] = "pb_empty_tail"
  /\ tail' = loc[t].node
  /\ Return(t)
  /\ UNCHANGED <<head, next, prev, hist>>

\* node->m_prev.store(old_tail)
PushBackStorePrev(t) ==
  /\ pc[t] = "pb_store_prev"
  /\ prev' = [prev EXCEPT ![loc[t].node] = loc[t].old]
  /\ Goto(t, "pb_store_next")
  /\ UNCHANGED <<head, tail, next, loc, hist>>

\* A buggy variant: the old tail is not linked to the node.
PushBackStoreNextSkip(t) ==
  /\ pc[t] = "pb_store_next"
  /\ Goto(t, "pb_cas")
  /\ UNCHANGED <<mem, loc, hist>>

\* old_tail->m_next.store(node)
PushBackStoreNext(t) ==
  /\ pc[t] = "pb_store_next"
  /\ next' = [next EXCEPT ![loc[t].old] = loc[t].node]
  /\ Goto(t, "pb_cas")
  /\ UNCHANGED <<head, tail, prev, loc, hist>>

\* m_tail.compare_exchange_weak(old_tail, node): return on success
PushBackCas(t) ==
  /\ pc[t] = "pb_cas"
  /\ IF tail = loc[t].old
       THEN tail' = loc[t].node /\ Return(t)
       ELSE tail' = tail /\ Goto(t, "pb_reset") /\ loc' = loc
  /\ UNCHANGED <<head, next, prev, hist>>

PushBackCasSpurious(t) ==
  /\ pc[t] = "pb_cas" /\ tail = loc[t].old
  /\ Goto(t, "pb_reset")
  /\ UNCHANGED <<mem, loc, hist>>

\* old_tail->m_next.store(nullptr); continue
PushBackReset(t) ==
  /\ pc[t] = "pb_reset"
  /\ next' = [next EXCEPT ![loc[t].old] = Null]
  /\ Goto(t, "pb_load")
  /\ UNCHANGED <<head, tail, prev, loc, hist>>

PushBack(t) ==
  \/ PushBackInitNext(t) \/ PushBackInitPrev(t) \/ PushBackLoadTail(t)
  \/ PushBackLoadHead(t) \/ PushBackEmptyStore(t) \/ PushBackEmptyCas(t)
  \/ PushBackEmptyCasSpurious(t) \/ PushBackEmptyTail(t) \/ PushBackStorePrev(t)
  \/ PushBackStoreNext(t) \/ PushBackCas(t) \/ PushBackCasSpurious(t)
  \/ PushBackReset(t)

\* The statements of push_back but the weak compare-exchanges failing spuriously.
PushBackStep(t) ==
  \/ PushBackInitNext(t) \/ PushBackInitPrev(t) \/ PushBackLoadTail(t)
  \/ PushBackLoadHead(t) \/ PushBackEmptyStore(t) \/ PushBackEmptyCas(t)
  \/ PushBackEmptyTail(t) \/ PushBackStorePrev(t) \/ PushBackStoreNext(t)
  \/ PushBackCas(t) \/ PushBackReset(t)

-----------------------------------------------------------------------------
(* Lock_free_list::insert_after, lockfreelist.h:359-409 *)

\* insert_after(target, n) with target in the list and n a fresh node
InsertAfterCall(t, target, n) ==
  /\ pc[t] = "idle" /\ n \in fresh /\ Member(target)
  /\ fresh' = fresh \ {n}
  /\ loc' = [loc EXCEPT ![t] = [NoLocals EXCEPT !.node = n, !.target = target]]
  /\ Goto(t, "ia_init_next")
  /\ UNCHANGED <<mem, rmBy, removed, ret, orig>>

\* new_node->m_next.store(nullptr)
InsertAfterInitNext(t) ==
  /\ pc[t] = "ia_init_next"
  /\ next' = [next EXCEPT ![loc[t].node] = Null]
  /\ Goto(t, "ia_init_prev")
  /\ UNCHANGED <<head, tail, prev, loc, hist>>

\* new_node->m_prev.store(nullptr)
InsertAfterInitPrev(t) ==
  /\ pc[t] = "ia_init_prev"
  /\ prev' = [prev EXCEPT ![loc[t].node] = Null]
  /\ Goto(t, "ia_load_next")
  /\ UNCHANGED <<head, tail, next, loc, hist>>

\* next = node->m_next.load()
InsertAfterLoadNext(t) ==
  /\ pc[t] = "ia_load_next"
  /\ loc' = [loc EXCEPT ![t].lnext = next[loc[t].target]]
  /\ Goto(t, "ia_load_prev")
  /\ UNCHANGED <<mem, hist>>

\* prev_check = node->m_prev.load()
InsertAfterLoadPrev(t) ==
  /\ pc[t] = "ia_load_prev"
  /\ loc' = [loc EXCEPT ![t].lprev = prev[loc[t].target]]
  /\ Goto(t, "ia_check")
  /\ UNCHANGED <<mem, hist>>

\* A buggy variant: the target is not validated.
InsertAfterCheckNone(t) ==
  /\ pc[t] = "ia_check"
  /\ Goto(t, "ia_store_next")
  /\ UNCHANGED <<mem, loc, hist>>

\* prev_check->m_next.load() != node, or m_head.load() != node: return false
InsertAfterCheck(t) ==
  /\ pc[t] = "ia_check"
  /\ LET seen == IF loc[t].lprev # Null THEN next[loc[t].lprev] ELSE head
     IN IF seen # loc[t].target
          THEN ret' = [ret EXCEPT ![loc[t].node] = "false"] /\ Return(t)
          ELSE ret' = ret /\ Goto(t, "ia_store_next") /\ loc' = loc
  /\ UNCHANGED <<mem, fresh, rmBy, removed, orig>>

\* new_node->m_next.store(next)
InsertAfterStoreNext(t) ==
  /\ pc[t] = "ia_store_next"
  /\ next' = [next EXCEPT ![loc[t].node] = loc[t].lnext]
  /\ Goto(t, "ia_store_prev")
  /\ UNCHANGED <<head, tail, prev, loc, hist>>

\* new_node->m_prev.store(node)
InsertAfterStorePrev(t) ==
  /\ pc[t] = "ia_store_prev"
  /\ prev' = [prev EXCEPT ![loc[t].node] = loc[t].target]
  /\ Goto(t, "ia_cas")
  /\ UNCHANGED <<head, tail, next, loc, hist>>

\* A buggy variant: node->m_next is stored without being compared.
InsertAfterCasBlind(t) ==
  /\ pc[t] = "ia_cas"
  /\ next' = [next EXCEPT ![loc[t].target] = loc[t].node]
  /\ Goto(t, "ia_fix")
  /\ UNCHANGED <<head, tail, prev, loc, hist>>

\* node->m_next.compare_exchange_weak(next, new_node)
InsertAfterCas(t) ==
  /\ pc[t] = "ia_cas"
  /\ IF next[loc[t].target] = loc[t].lnext
       THEN next' = [next EXCEPT ![loc[t].target] = loc[t].node] /\ Goto(t, "ia_fix")
       ELSE next' = next /\ Goto(t, "ia_load_next")
  /\ UNCHANGED <<head, tail, prev, loc, hist>>

InsertAfterCasSpurious(t) ==
  /\ pc[t] = "ia_cas" /\ next[loc[t].target] = loc[t].lnext
  /\ Goto(t, "ia_load_next")
  /\ UNCHANGED <<mem, loc, hist>>

\* A buggy variant: a node inserted behind the tail is not made the tail.
InsertAfterFixNoTail(t) ==
  /\ pc[t] = "ia_fix"
  /\ IF loc[t].lnext # Null
       THEN prev' = [prev EXCEPT ![loc[t].lnext] = loc[t].node]
       ELSE prev' = prev
  /\ ret' = [ret EXCEPT ![loc[t].node] = "true"] /\ Return(t)
  /\ UNCHANGED <<head, tail, next, fresh, rmBy, removed, orig>>

\* next->m_prev.store(new_node); return true, or
\* m_tail.compare_exchange_strong(expected, new_node): continue on failure
InsertAfterFix(t) ==
  /\ pc[t] = "ia_fix"
  /\ IF loc[t].lnext # Null
       THEN /\ prev' = [prev EXCEPT ![loc[t].lnext] = loc[t].node] /\ tail' = tail
            /\ ret' = [ret EXCEPT ![loc[t].node] = "true"] /\ Return(t)
       ELSE IF tail = loc[t].target
         THEN /\ tail' = loc[t].node /\ prev' = prev
              /\ ret' = [ret EXCEPT ![loc[t].node] = "true"] /\ Return(t)
         ELSE /\ tail' = tail /\ prev' = prev /\ ret' = ret
              /\ Goto(t, "ia_load_next") /\ loc' = loc
  /\ UNCHANGED <<head, next, fresh, rmBy, removed, orig>>

InsertAfter(t) ==
  \/ InsertAfterInitNext(t) \/ InsertAfterInitPrev(t) \/ InsertAfterLoadNext(t)
  \/ InsertAfterLoadPrev(t) \/ InsertAfterCheck(t) \/ InsertAfterStoreNext(t)
  \/ InsertAfterStorePrev(t) \/ InsertAfterCas(t) \/ InsertAfterCasSpurious(t)
  \/ InsertAfterFix(t)

-----------------------------------------------------------------------------
(* Concurrent push_front calls on an initially empty list. *)

NextPushFront == \E t \in Threads : (\E n \in Nodes : PushFrontCall(t, n)) \/ PushFront(t)
SpecPushFront == InitEmpty /\ [][NextPushFront]_vars

\* C2: once all concurrent push_front calls on an initially empty list have
\* returned, following next from head visits exactly the pushed nodes, each once.
C2_PushFrontKeepsAll ==
  AllIdle => /\ Len(Walk) <= NumNodes
             /\ NoDup(Walk)
             /\ Reach = Nodes \ fresh
C2_Witness == AllIdle /\ fresh = {} /\ Len(Walk) = NumNodes /\ Walk[1] # NumNodes

-----------------------------------------------------------------------------
(* Concurrent push_front and push_back calls on an initially empty list     *)
(* (tests/lockfreelist_test.cc, ConcurrentPushBackAndFront).                *)

NextPush ==
  \E t \in Threads :
    \/ \E n \in Nodes : PushFrontCall(t, n)
    \/ \E n \in Nodes : PushBackCall(t, n)
    \/ PushFront(t)
    \/ PushBack(t)
SpecPush == InitEmpty /\ [][NextPush]_vars

\* C1: once all concurrent push_front and push_back calls (no removes) have
\* returned, following next from head visits every pushed node exactly once,
\* so the number of visited nodes equals the number of pushes.
C1_PushesKeepAll ==
  AllIdle => /\ Len(Walk) = Cardinality(Nodes \ fresh)
             /\ NoDup(Walk)
             /\ Reach = Nodes \ fresh

-----------------------------------------------------------------------------
(* remove of member nodes, each by one call, concurrent with push_front. *)

InitSomeList == \E k \in 1..NumNodes : ListOf(k)

NextPushRemove ==
  \E t \in Threads :
    \/ \E n \in Nodes : PushFrontCall(t, n)
    \/ \E n \in Nodes : RemoveCall(t, n, TRUE)
    \/ PushFront(t)
    \/ Remove(t)
SpecPushRemove == InitSomeList /\ [][NextPushRemove]_vars

\* C3: once remove(n) has returned for a member n (not pushed again), n is not
\* reachable from head and tail is not n, also under concurrent push_front and
\* remove calls on other members.
C3_RemovedUnreachable == \A n \in removed : n \notin Reach /\ tail # n

-----------------------------------------------------------------------------
(* push_front threads and threads that remove the node they read from head  *)
(* (tests/lockfreelist_test.cc, ConcurrentPushAndRemove).                   *)

\* current = list->m_head.load(); if (current) list->remove(current);
RemoveHeadCall(t) ==
  /\ pc[t] = "idle" /\ head # Null
  /\ rmBy' = [rmBy EXCEPT ![head] = @ \cup {t}]
  /\ loc' = [loc EXCEPT ![t] = [NoLocals EXCEPT !.node = head]]
  /\ Goto(t, "rm_load_prev")
  /\ UNCHANGED <<mem, fresh, removed, ret, orig>>

NextHeadRemove ==
  \E t \in Threads :
    \/ \E n \in Nodes : PushFrontCall(t, n)
    \/ RemoveHeadCall(t)
    \/ PushFront(t)
    \/ Remove(t)
SpecHeadRemove == InitEmpty /\ [][NextHeadRemove]_vars

\* C4: once all push_front calls and all removes of the node read from head have
\* returned, every node N reachable from head has N.next null or N.next.prev = N,
\* and N.prev null or N.prev.next = N; head.prev and tail.next are null.
C4_LinksConsistent ==
  AllIdle =>
    /\ \A n \in Reach : /\ next[n] = Null \/ prev[next[n]] = n
                        /\ prev[n] = Null \/ next[prev[n]] = n
    /\ head # Null => prev[head] = Null
    /\ tail # Null => next[tail] = Null

-----------------------------------------------------------------------------
(* All four mutators, each called within its preconditions. *)

NextAll ==
  \E t \in Threads :
    \/ \E n \in Nodes : PushFrontCall(t, n)
    \/ \E n \in Nodes : PushBackCall(t, n)
    \/ \E x, n \in Nodes : InsertAfterCall(t, x, n)
    \/ \E n \in Nodes : RemoveCall(t, n, TRUE)
    \/ PushFront(t)
    \/ PushBack(t)
    \/ InsertAfter(t)
    \/ Remove(t)
SpecAll == InitSomeList /\ [][NextAll]_vars

\* C5: no node reachable from head has next or prev equal to itself.
C5_NoSelfLoop == \A n \in Reach : next[n] # n /\ prev[n] # n

-----------------------------------------------------------------------------
(* push_front, push_back and remove. *)

NextPushBackRemove ==
  \E t \in Threads :
    \/ \E n \in Nodes : PushFrontCall(t, n)
    \/ \E n \in Nodes : PushBackCall(t, n)
    \/ \E n \in Nodes : RemoveCall(t, n, TRUE)
    \/ PushFront(t)
    \/ PushBack(t)
    \/ Remove(t)
SpecPushBackRemove == InitEmpty /\ [][NextPushBackRemove]_vars

-----------------------------------------------------------------------------
(* insert_after(x, n) concurrent with remove(x), x a member at both calls. *)

InsertAndRemoveCalls(a, b, x, n) ==
  /\ a # b /\ AllIdle /\ removed = {} /\ Member(x) /\ n \in fresh
  /\ \A m \in Nodes : rmBy[m] = {} /\ ret[m] = "none"
  /\ fresh' = fresh \ {n}
  /\ rmBy' = [rmBy EXCEPT ![x] = {b}]
  /\ loc' = [loc EXCEPT ![a] = [NoLocals EXCEPT !.node = n, !.target = x],
                        ![b] = [NoLocals EXCEPT !.node = x]]
  /\ pc' = [pc EXCEPT ![a] = "ia_init_next", ![b] = "rm_load_prev"]
  /\ UNCHANGED <<mem, removed, ret, orig>>

NextInsertRemove ==
  \/ \E a, b \in Threads : \E x, n \in Nodes : InsertAndRemoveCalls(a, b, x, n)
  \/ \E t \in Threads : InsertAfter(t) \/ Remove(t)
SpecInsertRemove == InitSomeList /\ [][NextInsertRemove]_vars

\* C7: after insert_after(x, n) and a concurrent remove(x) have both returned,
\* either insert_after returned true and n is reachable from head, or it
\* returned false and n is not reachable from head.
C7_InsertMatchesResult ==
  AllIdle =>
    \A n \in Nodes : /\ ret[n] = "true" => n \in Reach
                     /\ ret[n] = "false" => n \notin Reach

-----------------------------------------------------------------------------
(* Several threads remove the same member node; nothing else runs. *)

NextRemoveSame ==
  \E t \in Threads :
    \/ \E n \in Nodes :
         /\ t \notin rmBy[n] /\ \A m \in Nodes \ {n} : rmBy[m] = {}
         /\ RemoveCall(t, n, FALSE)
    \/ Remove(t)
SpecRemoveSame == InitSomeList /\ [][NextRemoveSame]_vars

\* The place of n in the list as built.
IndexOf(n) == CHOOSE i \in 1..Len(orig) : orig[i] = n

\* remove(n) had the effect of one removal on the list as built.
RemovedOnce(n) ==
  LET i == IndexOf(n)
      before == IF i > 1 THEN orig[i - 1] ELSE Null
      after == IF i < Len(orig) THEN orig[i + 1] ELSE Null
  IN /\ Walk = Without(orig, n)
     /\ head # n /\ tail # n
     /\ IF before # Null THEN next[before] = after ELSE head = after
     /\ IF after # Null THEN prev[after] = before ELSE tail = before

\* C8: two threads that concurrently remove the same member node n, nothing
\* else running, both return, and the list is as after a single removal: the
\* other members in their original order, head and tail not n, and the
\* neighbours of n pointing at each other.
C8_SameNodeRemovedOnce ==
  /\ \A t \in Threads : pc[t] # "idle" => ENABLED Remove(t)
  /\ \A n \in Nodes : AllIdle /\ Cardinality(rmBy[n]) >= 2 => RemovedOnce(n)
C8_Witness ==
  AllIdle /\ Len(orig) = 3 /\ \E n \in Nodes : Cardinality(rmBy[n]) = 2 /\ n = orig[2]

-----------------------------------------------------------------------------
(* ut::Node::Tag, part_003:14-49.  A word holds the address of a node, a     *)
(* multiple of PtrAlign, and a version in the bits below; node n lives at     *)
(* address n * PtrAlign.                                                      *)

\* version_mask = 0x4
VersionMask == 4
\* ptr_mask = 0xFFFFFFFFFFFFFFF0: the low four bits are not part of the pointer
PtrAlign == 16

\* operator Node*(): m_ptr & ptr_mask, as a node
TPtr(w) == w \div PtrAlign
\* version(): m_ptr & version_mask
TVersion(w) == ((w \div VersionMask) % 2) * VersionMask
\* Tag(uintptr_t ptr, uintptr_t version): (ptr & ptr_mask) | version
TTag(w, v) == PtrAlign * (w \div PtrAlign) + v
\* Tag(Node* ptr, uintptr_t version)
TTagNode(n, v) == TTag(PtrAlign * n, v)

\* The forward traversal of the tagged list.
TWalk == WalkFrom([n \in Nodes |-> TPtr(next[n])], TPtr(head), NumNodes + 1)
TReach == SeqSet(TWalk)
TMember(n) ==
  /\ n \in TReach
  /\ \A t \in Threads : loc[t].node = n => pc[t] \in RemovePcs \cup {"idle"}

\* The tagged list 1, ..., k as push_back(1); ...; push_back(k) by one thread
\* leaves it.
TListOf(k) ==
  /\ head = TTagNode(1, 1) /\ tail = TTagNode(k, 1)
  /\ next = [n \in Nodes |-> IF n < k THEN TTagNode(n + 1, 1) ELSE Null]
  /\ prev = [n \in Nodes |-> IF n <= k THEN TTagNode(n - 1, 0) ELSE Null]
  /\ pc = [t \in Threads |-> "idle"]
  /\ loc = [t \in Threads |-> NoLocals]
  /\ fresh = Nodes \ (1..k)
  /\ orig = [i \in 1..k |-> i]
  /\ InitHist

-----------------------------------------------------------------------------
(* ut::Lock_free_list::push_front, part_003:301-331 *)

TPushFrontCall(t, n) ==
  /\ pc[t] = "idle" /\ n \in fresh
  /\ fresh' = fresh \ {n}
  /\ loc' = [loc EXCEPT ![t] = [NoLocals EXCEPT !.node = n]]
  /\ Goto(t, "tpf_init_next")
  /\ UNCHANGED <<mem, rmBy, removed, ret, orig>>

\* node->init(): m_next.store(null_tag)
TPushFrontInitNext(t) ==
  /\ pc[t] = "tpf_init_next"
  /\ next' = [next EXCEPT ![loc[t].node] = Null]
  /\ Goto(t, "tpf_init_prev")
  /\ UNCHANGED <<head, tail, prev, loc, hist>>

\* node->init(): m_prev.store(null_tag)
TPushFrontInitPrev(t) ==
  /\ pc[t] = "tpf_init_prev"
  /\ prev' = [prev EXCEPT ![loc[t].node] = Null]
  /\ Goto(t, "tpf_load")
  /\ UNCHANGED <<head, tail, next, loc, hist>>

\* old_head = m_head.load()
TPushFrontLoadHead(t) ==
  /\ pc[t] = "tpf_load"
  /\ loc' = [loc EXCEPT ![t].old = head]
  /\ Goto(t, "tpf_store")
  /\ UNCHANGED <<mem, hist>>

\* node->m_next.store(Tag{old_head.m_ptr, 0})
TPushFrontStoreNext(t) ==
  /\ pc[t] = "tpf_store"
  /\ next' = [next EXCEPT ![loc[t].node] = TTag(loc[t].old, 0)]
  /\ Goto(t, "tpf_cas")
  /\ UNCHANGED <<head, tail, prev, loc, hist>>

\* m_head.compare_exchange_weak(old_head, Tag{node, old_head.version() + 1})
TPushFrontCas(t) ==
  /\ pc[t] = "tpf_cas"
  /\ IF head = loc[t].old
       THEN /\ head' = TTagNode(loc[t].node, TVersion(loc[t].old) + 1)
            /\ Goto(t, IF TPtr(loc[t].old) # Null THEN "tpf_load_prev" ELSE "tpf_tail")
       ELSE head' = head /\ Goto(t, "tpf_load")
  /\ UNCHANGED <<tail, next, prev, loc, hist>>

TPushFrontCasSpurious(t) ==
  /\ pc[t] = "tpf_cas" /\ head = loc[t].old
  /\ Goto(t, "tpf_load")
  /\ UNCHANGED <<mem, loc, hist>>

\* old_prev = old_head->m_prev.load()
TPushFrontLoadPrev(t) ==
  /\ pc[t] = "tpf_load_prev"
  /\ loc' = [loc EXCEPT ![t].lprev = prev[TPtr(loc[t].old)]]
  /\ Goto(t, "tpf_store_prev")
  /\ UNCHANGED <<mem, hist>>

\* old_head->m_prev.store(Tag{node, old_prev.version() + 1}); return
TPushFrontStorePrev(t) ==
  /\ pc[t] = "tpf_store_prev"
  /\ prev' = [prev EXCEPT ![TPtr(loc[t].old)] =
                TTagNode(loc[t].node, TVersion(loc[t].lprev) + 1)]
  /\ Return(t)
  /\ UNCHANGED <<head, tail, next, hist>>

\* m_tail.store(new_head); return
TPushFrontTail(t) ==
  /\ pc[t] = "tpf_tail"
  /\ tail' = TTagNode(loc[t].node, TVersion(loc[t].old) + 1)
  /\ Return(t)
  /\ UNCHANGED <<head, next, prev, hist>>

\* The statements of push_front but the weak compare-exchange failing spuriously.
TPushFrontStep(t) ==
  \/ TPushFrontInitNext(t) \/ TPushFrontInitPrev(t) \/ TPushFrontLoadHead(t)
  \/ TPushFrontStoreNext(t) \/ TPushFrontCas(t) \/ TPushFrontLoadPrev(t)
  \/ TPushFrontStorePrev(t) \/ TPushFrontTail(t)
TPushFront(t) == TPushFrontStep(t) \/ TPushFrontCasSpurious(t)

-----------------------------------------------------------------------------
(* ut::Lock_free_list::remove, part_003:334-388 *)

TRemoveCall(t, n, excl) ==
  /\ pc[t] = "idle" /\ TMember(n)
  /\ excl => rmBy[n] = {}
  /\ rmBy' = [rmBy EXCEPT ![n] = @ \cup {t}]
  /\ loc' = [loc EXCEPT ![t] = [NoLocals EXCEPT !.node = n]]
  /\ Goto(t, "trm_load_prev")
  /\ UNCHANGED <<mem, fresh, removed, ret, orig>>

\* prev = node->m_prev.load()
TRemoveLoadPrev(t) ==
  /\ pc[t] = "trm_load_prev"
  /\ loc' = [loc EXCEPT ![t].lprev = prev[loc[t].node]]
  /\ Goto(t, "trm_load_next")
  /\ UNCHANGED <<mem, hist>>

\* next = node->m_next.load()
TRemoveLoadNext(t) ==
  /\ pc[t] = "trm_load_next"
  /\ loc' = [loc EXCEPT ![t].lnext = next[loc[t].node]]
  /\ Goto(t, "trm_expect")
  /\ UNCHANGED <<mem, hist>>

\* expected = prev->m_next.load(), or m_head.load(); if (expected != node) continue
TRemoveExpect(t) ==
  /\ pc[t] = "trm_expect"
  /\ LET expected == IF TPtr(loc[t].lprev) # Null THEN next[TPtr(loc[t].lprev)] ELSE head
     IN /\ loc' = [loc EXCEPT ![t].exp = expected]
        /\ Goto(t, IF TPtr(expected) # loc[t].node THEN "trm_load_prev" ELSE "trm_cas")
  /\ UNCHANGED <<mem, hist>>

\* prev->m_next (or m_head) .compare_exchange_strong(expected,
\*   Tag{next_ptr, expected.version() + 1}); retry on failure
TRemoveCas(t) ==
  /\ pc[t] = "trm_cas"
  /\ LET p == TPtr(loc[t].lprev)
         word == IF p # Null THEN next[p] ELSE head
         new_tag == TTagNode(TPtr(loc[t].lnext), TVersion(loc[t].exp) + 1)
     IN IF word = loc[t].exp
          THEN /\ IF p # Null
                    THEN next' = [next EXCEPT ![p] = new_tag] /\ head' = head
                    ELSE head' = new_tag /\ next' = next
               /\ IF TPtr(loc[t].lnext) # Null
                    THEN Goto(t, "trm_load_nprev") /\ loc' = loc /\ removed' = removed
                    ELSE Return(t) /\ removed' = removed \cup {loc[t].node}
          ELSE /\ Goto(t, "trm_load_prev")
               /\ UNCHANGED <<head, next, loc, removed>>
  /\ UNCHANGED <<tail, prev, fresh, rmBy, ret, orig>>

\* next_expected = next->m_prev.load()
TRemoveLoadNextPrev(t) ==
  /\ pc[t] = "trm_load_nprev"
  /\ loc' = [loc EXCEPT ![t].old = prev[TPtr(loc[t].lnext)]]
  /\ Goto(t, "trm_cas_nprev")
  /\ UNCHANGED <<mem, hist>>

\* next->m_prev.compare_exchange_strong(next_expected,
\*   Tag{prev_ptr, next_expected.version() + 1}); return
TRemoveCasNextPrev(t) ==
  /\ pc[t] = "trm_cas_nprev"
  /\ LET nx == TPtr(loc[t].lnext)
     IN prev' = IF prev[nx] = loc[t].old
                  THEN [prev EXCEPT ![nx] =
                          TTagNode(TPtr(loc[t].lprev), TVersion(loc[t].old) + 1)]
                  ELSE prev
  /\ removed' = removed \cup {loc[t].node}
  /\ Return(t)
  /\ UNCHANGED <<head, tail, next, fresh, rmBy, ret, orig>>

TRemove(t) ==
  \/ TRemoveLoadPrev(t) \/ TRemoveLoadNext(t) \/ TRemoveExpect(t)
  \/ TRemoveCas(t) \/ TRemoveLoadNextPrev(t) \/ TRemoveCasNextPrev(t)

-----------------------------------------------------------------------------
(* ut::Lock_free_list::push_back, part_003:391-438 *)

TPushBackCall(t, n) ==
  /\ pc[t] = "idle" /\ n \in fresh
  /\ fresh' = fresh \ {n}
  /\ loc' = [loc EXCEPT ![t] = [NoLocals EXCEPT !.node = n]]
  /\ Goto(t, "tpb_init_next")
  /\ UNCHANGED <<mem, rmBy, removed, ret, orig>>

\* node->init(): m_next.store(null_tag)
TPushBackInitNext(t) ==
  /\ pc[t] = "tpb_init_next"
  /\ next' = [next EXCEPT ![loc[t].node] = Null]
  /\ Goto(t, "tpb_init_prev")
  /\ UNCHANGED <<head, tail, prev, loc, hist>>

\* node->init(): m_prev.store(null_tag)
TPushBackInitPrev(t) ==
  /\ pc[t] = "tpb_init_prev"
  /\ prev' = [prev EXCEPT ![loc[t].node] = Null]
  /\ Goto(t, "tpb_load")
  /\ UNCHANGED <<head, tail, next, loc, hist>>

\* old_tail = m_tail.load(); if (old_tail == nullptr) ...
TPushBackLoadTail(t) ==
  /\ pc[t] = "tpb_load"
  /\ loc' = [loc EXCEPT ![t].old = tail]
  /\ Goto(t, IF TPtr(tail) = Null THEN "tpb_empty" ELSE "tpb_store_prev")
  /\ UNCHANGED <<mem, hist>>

\* old_head = m_head.load(); if (old_head == nullptr) ... else continue
TPushBackLoadHead(t) ==
  /\ pc[t] = "tpb_empty"
  /\ loc' = [loc EXCEPT ![t].exp = head]
  /\ Goto(t, IF TPtr(head) = Null THEN "tpb_empty_cas" ELSE "tpb_load")
  /\ UNCHANGED <<mem, hist>>

\* m_head.compare_exchange_weak(old_head, Tag{node, old_head.version() + 1});
\* on failure continue
TPushBackEmptyCas(t) ==
  /\ pc[t] = "tpb_empty_cas"
  /\ IF head = loc[t].exp
       THEN /\ head' = TTagNode(loc[t].node, TVersion(loc[t].exp) + 1)
            /\ Goto(t, "tpb_empty_tail")
       ELSE head' = head /\ Goto(t, "tpb_load")
  /\ UNCHANGED <<tail, next, prev, loc, hist>>

TPushBackEmptyCasSpurious(t) ==
  /\ pc[t] = "tpb_empty_cas" /\ head = loc[t].exp
  /\ Goto(t, "tpb_load")
  /\ UNCHANGED <<mem, loc, hist>>

\* m_tail.store(new_tag); return
TPushBackEmptyTail(t) ==
  /\ pc[t] = "tpb_empty_tail"
  /\ tail' = TTagNode(loc[t].node, TVersion(loc[t].exp) + 1)
  /\ Return(t)
  /\ UNCHANGED <<head, next, prev, hist>>

\* node->m_prev.store(Tag{old_tail.m_ptr, 0})
TPushBackStorePrev(t) ==
  /\ pc[t] = "tpb_store_prev"
  /\ prev' = [prev EXCEPT ![loc[t].node] = TTag(loc[t].old, 0)]
  /\ Goto(t, "tpb_load_next")
  /\ UNCHANGED <<head, tail, next, loc, hist>>

\* A buggy variant: the next of the old tail is loaded and not tested.
TPushBackLoadNextNoCheck(t) ==
  /\ pc[t] = "tpb_load_next"
  /\ loc' = [loc EXCEPT ![t].exp = next[TPtr(loc[t].old)]]
  /\ Goto(t, "tpb_cas")
  /\ UNCHANGED <<mem, hist>>

\* old_next = old_tail->m_next.load(); if (old_next != nullptr) continue
TPushBackLoadNext(t) ==
  /\ pc[t] = "tpb_load_next"
  /\ loc' = [loc EXCEPT ![t].exp = next[TPtr(loc[t].old)]]
  /\ Goto(t, IF TPtr(next[TPtr(loc[t].old)]) # Null THEN "tpb_load" ELSE "tpb_cas")
  /\ UNCHANGED <<mem, hist>>

\* old_tail->m_next.compare_exchange_weak(old_next, Tag{node, old_next.version() + 1})
TPushBackCas(t) ==
  /\ pc[t] = "tpb_cas"
  /\ LET last == TPtr(loc[t].old)
     IN IF next[last] = loc[t].exp
          THEN /\ next' = [next EXCEPT ![last] =
                             TTagNode(loc[t].node, TVersion(loc[t].exp) + 1)]
               /\ Goto(t, "tpb_cas_tail")
          ELSE next' = next /\ Goto(t, "tpb_load")
  /\ UNCHANGED <<head, tail, prev, loc, hist>>

TPushBackCasSpurious(t) ==
  /\ pc[t] = "tpb_cas" /\ next[TPtr(loc[t].old)] = loc[t].exp
  /\ Goto(t, "tpb_load")
  /\ UNCHANGED <<mem, loc, hist>>

\* m_tail.compare_exchange_strong(old_tail, Tag{node, old_tail.version() + 1}); return
TPushBackCasTail(t) ==
  /\ pc[t] = "tpb_cas_tail"
  /\ tail' = IF tail = loc[t].old
               THEN TTagNode(loc[t].node, TVersion(loc[t].old) + 1)
               ELSE tail
  /\ Return(t)
  /\ UNCHANGED <<head, next, prev, hist>>

\* The statements of push_back but the weak compare-exchanges failing spuriously.
TPushBackStep(t) ==
  \/ TPushBackInitNext(t) \/ TPushBackInitPrev(t) \/ TPushBackLoadTail(t)
  \/ TPushBackLoadHead(t) \/ TPushBackEmptyCas(t) \/ TPushBackEmptyTail(t)
  \/ TPushBackStorePrev(t) \/ TPushBackLoadNext(t) \/ TPushBackCas(t)
  \/ TPushBackCasTail(t)
TPushBack(t) == TPushBackStep(t) \/ TPushBackEmptyCasSpurious(t) \/ TPushBackCasSpurious(t)

-----------------------------------------------------------------------------
(* Tagged list: the two first nodes removed by concurrent calls. *)

TInitSomeList == \E k \in 2..NumNodes : TListOf(k)

NextTRemoveAdjacent ==
  \E t \in Threads :
    \/ \E n \in {orig[1], orig[2]} : TRemoveCall(t, n, TRUE)
    \/ TRemove(t)
SpecTRemoveAdjacent == TInitSomeList /\ [][NextTRemoveAdjacent]_vars

\* C9: after two threads have removed the head node and its successor by
\* concurrent calls that both returned, neither removed node is reachable from
\* head.
C9_AdjacentRemovedUnreachable ==
  AllIdle => \A n \in removed : n \notin TReach

-----------------------------------------------------------------------------
(* Tagged list: thread 1 calls push_back while the other threads, which call *)
(* push_front and push_back, may stop at any statement.  Only thread 1 is    *)
(* scheduled fairly; a weak compare-exchange does not fail spuriously.       *)

\* The thread whose push_back call is watched: the first one.
PushBackThread == CHOOSE t \in Threads : \A u \in Threads : t <= u

NextTStall ==
  \/ \E n \in Nodes : TPushBackCall(PushBackThread, n)
  \/ TPushBackStep(PushBackThread)
  \/ \E t \in Threads \ {PushBackThread} :
       \/ \E n \in Nodes : TPushFrontCall(t, n)
       \/ \E n \in Nodes : TPushBackCall(t, n)
       \/ TPushFrontStep(t)
       \/ TPushBackStep(t)
SpecTStall ==
  /\ InitEmpty
  /\ [][NextTStall]_vars
  /\ WF_vars(TPushBackStep(PushBackThread))

\* C10: a push_back call returns after finitely many of its own steps, whatever
\* statement the other threads have stopped at.
C10_PushBackReturns ==
  [](pc[PushBackThread] # "idle" => <>(pc[PushBackThread] = "idle"))

-----------------------------------------------------------------------------
(* Tagged list: remove calls on members, also on the same node or on         *)
(* neighbours, every thread scheduled fairly.                                *)

NextTRemoveFair ==
  \E t \in Threads :
    \/ \E n \in Nodes : TRemoveCall(t, n, FALSE)
    \/ TRemove(t)
SpecTRemoveFair ==
  /\ TInitSomeList
  /\ [][NextTRemoveFair]_vars
  /\ \A t \in Threads : WF_vars(TRemove(t))

\* C11: under fair scheduling every remove(n) call of the tagged list on a node
\* that was a member when the call started returns, also when another thread
\* removes the same node or a neighbour concurrently.
C11_RemoveReturns ==
  \A t \in Threads : [](pc[t] # "idle" => <>(pc[t] = "idle"))

-----------------------------------------------------------------------------
(* Concurrent push_front, push_back and remove calls; then, all of them      *)
(* having returned, one push_back call that runs alone.  The lone call is    *)
(* scheduled fairly and its weak compare-exchanges do not fail spuriously.   *)

SoloRunning == \E t \in Threads : loc[t].solo

\* push_back(n) called while no call is in progress
SoloPushBackCall(t, n) ==
  /\ AllIdle /\ n \in fresh
  /\ fresh' = fresh \ {n}
  /\ loc' = [loc EXCEPT ![t] = [NoLocals EXCEPT !.node = n, !.solo = TRUE]]
  /\ Goto(t, "pb_init_next")
  /\ UNCHANGED <<mem, rmBy, removed, ret, orig>>

SoloPushBackStep(t) == loc[t].solo /\ PushBackStep(t)

NextSoloPushBack ==
  \/ ~SoloRunning /\ NextPushBackRemove
  \/ \E t \in Threads :
       \/ \E n \in Nodes : SoloPushBackCall(t, n)
       \/ SoloPushBackStep(t)
SpecSoloPushBack ==
  /\ InitEmpty
  /\ [][NextSoloPushBack]_vars
  /\ \A t \in Threads : WF_vars(SoloPushBackStep(t))

-----------------------------------------------------------------------------
(* Lock_free_list::find_if, lockfreelist.h:412-458.  The predicate is given  *)
(* by the set loc.pred of the nodes that satisfy it.                         *)

FindIfPcs ==
  {"fi_load_head", "fi_test", "fi_advance", "fi_load_next", "fi_load_prev",
   "fi_check_next", "fi_check_prev"}

\* find_if called while no call is in progress, with a predicate that node k
\* alone satisfies
SoloFindIfCall(t, k) ==
  /\ AllIdle
  /\ loc' = [loc EXCEPT ![t] = [NoLocals EXCEPT !.target = k, !.pred = {k}, !.solo = TRUE]]
  /\ Goto(t, "fi_load_head")
  /\ UNCHANGED <<mem, hist>>

\* current = m_head.load()
FindIfLoadHead(t) ==
  /\ pc[t] = "fi_load_head"
  /\ loc' = [loc EXCEPT ![t].cur = head]
  /\ Goto(t, "fi_test")
  /\ UNCHANGED <<mem, hist>>

\* A variant of the loop that takes every node for a match.
FindIfTestAny(t) ==
  /\ pc[t] = "fi_test"
  /\ IF loc[t].cur = Null
       THEN Return(t)
       ELSE Goto(t, "fi_load_next") /\ loc' = loc
  /\ UNCHANGED <<mem, hist>>

\* while (current != nullptr) { if (pred(current)) ... }; return nullptr at the end
FindIfTest(t) ==
  /\ pc[t] = "fi_test"
  /\ IF loc[t].cur = Null
       THEN Return(t)
       ELSE /\ Goto(t, IF loc[t].cur \in loc[t].pred THEN "fi_load_next" ELSE "fi_advance")
            /\ loc' = loc
  /\ UNCHANGED <<mem, hist>>

\* current = current->m_next.load()
FindIfAdvance(t) ==
  /\ pc[t] = "fi_advance"
  /\ loc' = [loc EXCEPT ![t].cur = next[loc[t].cur]]
  /\ Goto(t, "fi_test")
  /\ UNCHANGED <<mem, hist>>

\* next = current->m_next.load()
FindIfLoadNext(t) ==
  /\ pc[t] = "fi_load_next"
  /\ loc' = [loc EXCEPT ![t].lnext = next[loc[t].cur]]
  /\ Goto(t, "fi_load_prev")
  /\ UNCHANGED <<mem, hist>>

\* prev = current->m_prev.load()
FindIfLoadPrev(t) ==
  /\ pc[t] = "fi_load_prev"
  /\ loc' = [loc EXCEPT ![t].lprev = prev[loc[t].cur]]
  /\ Goto(t, "fi_check_next")
  /\ UNCHANGED <<mem, hist>>

\* next->m_prev.load() != current, or m_tail.load() != current: break and retry
FindIfCheckNext(t) ==
  /\ pc[t] = "fi_check_next"
  /\ LET seen == IF loc[t].lnext # Null THEN prev[loc[t].lnext] ELSE tail
     IN Goto(t, IF seen # loc[t].cur THEN "fi_load_head" ELSE "fi_check_prev")
  /\ UNCHANGED <<mem, loc, hist>>

\* A buggy variant: when the check fails, the search ends as if the end of
\* the list had been reached.
FindIfCheckPrevGiveUp(t) ==
  /\ pc[t] = "fi_check_prev"
  /\ LET seen == IF loc[t].lprev # Null THEN next[loc[t].lprev] ELSE head
     IN IF seen # loc[t].cur
          THEN Goto(t, "fi_test") /\ loc' = [loc EXCEPT ![t].cur = Null]
          ELSE Return(t)
  /\ UNCHANGED <<mem, hist>>

\* prev->m_next.load() != current, or m_head.load() != current: break and retry;
\* otherwise return current
FindIfCheckPrev(t) ==
  /\ pc[t] = "fi_check_prev"
  /\ LET seen == IF loc[t].lprev # Null THEN next[loc[t].lprev] ELSE head
     IN IF seen # loc[t].cur
          THEN Goto(t, "fi_load_head") /\ loc' = loc
          ELSE Return(t)
  /\ UNCHANGED <<mem, hist>>

FindIf(t) ==
  \/ FindIfLoadHead(t) \/ FindIfTest(t) \/ FindIfAdvance(t) \/ FindIfLoadNext(t)
  \/ FindIfLoadPrev(t) \/ FindIfCheckNext(t) \/ FindIfCheckPrev(t)

-----------------------------------------------------------------------------
(* Concurrent push_front and remove calls; then, all of them having          *)
(* returned, one find_if call that runs alone and is scheduled fairly.       *)

NextSoloFindIf ==
  \/ ~SoloRunning /\ NextPushRemove
  \/ \E t \in Threads :
       \/ \E k \in Nodes : SoloFindIfCall(t, k)
       \/ FindIf(t)
SpecSoloFindIf ==
  /\ InitEmpty
  /\ [][NextSoloFindIf]_vars
  /\ \A t \in Threads : WF_vars(FindIf(t))

\* C13: a find_if call made when all earlier concurrent push_front and remove
\* calls have returned, and running alone, returns.
C13_SoloFindIfReturns ==
  \A t \in Threads : [](pc[t] \in FindIfPcs => <>(pc[t] = "idle"))

-----------------------------------------------------------------------------
(* Tagged list: push_front, push_back and remove of members, each node       *)
(* removed by one call.                                                      *)

\* The bits of a word that ptr_mask leaves out of the pointer: its tag.
TagBits(w) == w % PtrAlign

NextTAll ==
  \E t \in Threads :
    \/ \E n \in Nodes : TPushFrontCall(t, n)
    \/ \E n \in Nodes : TPushBackCall(t, n)
    \/ \E n \in Nodes : TRemoveCall(t, n, TRUE)
    \/ TPushFront(t)
    \/ TPushBack(t)
    \/ TRemove(t)
SpecTAll == InitEmpty /\ [][NextTAll]_vars

\* C14: every successful update of the head word, all of which go through
\* version() + 1, replaces the tag by the next one modulo 16, so that a word
\* value cannot recur in fewer than 16 updates.
C14_TagAdvances ==
  [][head' # head => TagBits(head') = (TagBits(head) + 1) % PtrAlign]_vars

-----------------------------------------------------------------------------
(* Lock_free_list::iterator, lockfreelist.h:39-140, driven by the loop       *)
(*   for (it = list.begin(); it != list.end(); ++it) { dereference it }      *)

\* The loop stops dereferencing after this many nodes (a cyclic list has no end).
MaxVisits == NumNodes + 1

IterPcs ==
  {"it_test", "it_load_next", "it_check", "it_rec_cond", "it_rec_next", "it_rec_prev"}

\* begin(): iterator(m_head.load(), nullptr)
IterBegin(t) ==
  /\ pc[t] = "idle"
  /\ loc' = [loc EXCEPT ![t] = [NoLocals EXCEPT !.cur = head, !.snap = Reach]]
  /\ Goto(t, "it_test")
  /\ UNCHANGED <<mem, hist>>

\* it != end(): m_node != nullptr; then the loop body dereferences the iterator
IterTest(t) ==
  /\ pc[t] = "it_test"
  /\ IF loc[t].cur = Null
       THEN Goto(t, "it_done") /\ loc' = loc
       ELSE /\ Len(loc[t].seen) < MaxVisits
            /\ loc' = [loc EXCEPT ![t].seen = Append(@, loc[t].cur)]
            /\ Goto(t, "it_load_next")
  /\ UNCHANGED <<mem, hist>>

\* operator++: next = m_node->m_next.load()
IterLoadNext(t) ==
  /\ pc[t] = "it_load_next"
  /\ loc' = [loc EXCEPT ![t].lnext = next[loc[t].cur]]
  /\ Goto(t, "it_check")
  /\ UNCHANGED <<mem, hist>>

\* A buggy variant: the iterator records the node it leaves but stays on it.
IterCheckStay(t) ==
  /\ pc[t] = "it_check"
  /\ IF prev[loc[t].cur] # loc[t].iprev
       THEN Goto(t, "it_rec_cond") /\ loc' = loc
       ELSE /\ loc' = [loc EXCEPT ![t].iprev = loc[t].cur]
            /\ Goto(t, "it_test")
  /\ UNCHANGED <<mem, hist>>

\* operator++: if (m_node->m_prev.load() != m_prev) recover;
\* else m_prev = m_node, m_node = next
IterCheck(t) ==
  /\ pc[t] = "it_check"
  /\ IF prev[loc[t].cur] # loc[t].iprev
       THEN Goto(t, "it_rec_cond") /\ loc' = loc
       ELSE /\ loc' = [loc EXCEPT ![t].iprev = loc[t].cur, ![t].cur = loc[t].lnext]
            /\ Goto(t, "it_test")
  /\ UNCHANGED <<mem, hist>>

\* operator++: while (m_node != nullptr && m_node->m_prev.load() != m_prev)
IterRecCond(t) ==
  /\ pc[t] = "it_rec_cond"
  /\ Goto(t, IF loc[t].cur # Null /\ prev[loc[t].cur] # loc[t].iprev
               THEN "it_rec_next" ELSE "it_test")
  /\ UNCHANGED <<mem, loc, hist>>

\* operator++: m_node = m_node->m_next.load(); if (m_node != nullptr) ...
IterRecNext(t) ==
  /\ pc[t] = "it_rec_next"
  /\ loc' = [loc EXCEPT ![t].cur = next[loc[t].cur]]
  /\ Goto(t, IF next[loc[t].cur] # Null THEN "it_rec_prev" ELSE "it_rec_cond")
  /\ UNCHANGED <<mem, hist>>

\* operator++: m_prev = m_node->m_prev.load()
IterRecPrev(t) ==
  /\ pc[t] = "it_rec_prev"
  /\ loc' = [loc EXCEPT ![t].iprev = prev[loc[t].cur]]
  /\ Goto(t, "it_rec_cond")
  /\ UNCHANGED <<mem, hist>>

Iter(t) ==
  \/ IterTest(t) \/ IterLoadNext(t) \/ IterCheck(t)
  \/ IterRecCond(t) \/ IterRecNext(t) \/ IterRecPrev(t)

-----------------------------------------------------------------------------
(* A forward iteration concurrent with push_front, insert_after and remove   *)
(* calls of other threads.                                                   *)

\* The thread that iterates; in single-threaded use, the one thread there is.
MainThread == CHOOSE t \in Threads : \A u \in Threads : t <= u

NextIterAll ==
  \/ IterBegin(MainThread)
  \/ Iter(MainThread)
  \/ \E t \in Threads \ {MainThread} :
       \/ \E n \in Nodes : PushFrontCall(t, n)
       \/ \E x, n \in Nodes : InsertAfterCall(t, x, n)
       \/ \E n \in Nodes : RemoveCall(t, n, TRUE)
       \/ PushFront(t)
       \/ InsertAfter(t)
       \/ Remove(t)
SpecIterAll == InitSomeList /\ [][NextIterAll]_vars

\* C15: a forward iteration that has reached end() has dereferenced every node
\* that was reachable from head when begin() returned and that was never
\* passed to remove.
C15_IterationVisitsSurvivors ==
  \A t \in Threads :
    pc[t] = "it_done" =>
      \A n \in loc[t].snap : rmBy[n] = {} => n \in SeqSet(loc[t].seen)

-----------------------------------------------------------------------------
(* A forward iteration over a list built by push_back, concurrent with       *)
(* remove calls of other threads (tests/lockfreelist_test.cc,                *)
(* IteratorConcurrentModification).                                          *)

NextIterRemove ==
  \/ IterBegin(MainThread)
  \/ Iter(MainThread)
  \/ \E t \in Threads \ {MainThread} :
       \/ \E n \in Nodes : RemoveCall(t, n, TRUE)
       \/ Remove(t)
SpecIterRemove == InitSomeList /\ [][NextIterRemove]_vars

\* C19: an iteration concurrent with remove calls never dereferences a node
\* twice, and dereferences nodes in the order they had in the list as built.
C19_IterationInOrder ==
  \A t \in Threads :
    LET seen == loc[t].seen
    IN \A i, j \in 1..Len(seen) : i < j => IndexOf(seen[i]) < IndexOf(seen[j])

-----------------------------------------------------------------------------
(* Concurrent insert_after calls on the only node of the list                *)
(* (tests/lockfreelist_test.cc, ConcurrentInsertAfter).                      *)

InitOneNode == ListOf(1)

NextInsertSame ==
  \E t \in Threads :
    \/ \E n \in Nodes : InsertAfterCall(t, orig[1], n)
    \/ InsertAfter(t)
SpecInsertSame == InitOneNode /\ [][NextInsertSame]_vars

\* The nodes for which insert_after returned true.
Inserted == {n \in Nodes : ret[n] = "true"}

\* C16: once all concurrent insert_after calls on the same target, the initial
\* only node, have returned, the nodes reachable from head are one more than
\* the calls that returned true, and tail is the last of them.
C16_InsertSameTargetCounts ==
  AllIdle => /\ Len(Walk) = 1 + Cardinality(Inserted)
             /\ tail = Walk[Len(Walk)]
C16_Witness ==
  /\ AllIdle /\ Cardinality(Inserted) = NumNodes - 1
  /\ Walk[2] = NumNodes /\ tail # NumNodes

-----------------------------------------------------------------------------
(* insert_after on members concurrent with push_front; no node is removed,   *)
(* so a target stays a member for the whole call.                            *)

NextPushInsert ==
  \E t \in Threads :
    \/ \E n \in Nodes : PushFrontCall(t, n)
    \/ \E x, n \in Nodes : InsertAfterCall(t, x, n)
    \/ PushFront(t)
    \/ InsertAfter(t)
SpecPushInsert == InitSomeList /\ [][NextPushInsert]_vars

\* C17: insert_after on a target that is a member during the whole call, with
\* concurrent push_front calls, never returns false; the target of every call
\* in progress is reachable from head.
C17_NoFalseForMember ==
  /\ \A n \in Nodes : ret[n] # "false"
  /\ \A t \in Threads : loc[t].target # Null => loc[t].target \in Reach

-----------------------------------------------------------------------------
(* Single-threaded use: one thread makes every call.  push_front, remove of  *)
(* members, insert_after on members, and insert_after on a target that was   *)
(* removed and not pushed again; the node to insert after a removed target   *)
(* is a fresh one or another removed one.                                    *)

InsertAfterPcs ==
  {"ia_init_next", "ia_init_prev", "ia_load_next", "ia_load_prev", "ia_check",
   "ia_store_next", "ia_store_prev", "ia_cas", "ia_fix"}

\* insert_after(x, n) with x removed from the list
InsertAfterRemovedCall(t, x, n) ==
  /\ pc[t] = "idle" /\ x \in removed /\ n \in (fresh \cup removed) \ {x}
  /\ fresh' = fresh \ {n}
  /\ ret' = [ret EXCEPT ![n] = "none"]
  /\ loc' = [loc EXCEPT ![t] = [NoLocals EXCEPT !.node = n, !.target = x]]
  /\ Goto(t, "ia_init_next")
  /\ UNCHANGED <<mem, rmBy, removed, orig>>

NextSeqInsertRemoved ==
  \/ \E n \in Nodes : PushFrontCall(MainThread, n)
  \/ \E n \in Nodes : RemoveCall(MainThread, n, TRUE)
  \/ \E x, n \in Nodes : InsertAfterCall(MainThread, x, n)
  \/ \E x, n \in Nodes : InsertAfterRemovedCall(MainThread, x, n)
  \/ PushFront(MainThread)
  \/ Remove(MainThread)
  \/ InsertAfter(MainThread)
SpecSeqInsertRemoved == InitSomeList /\ [][NextSeqInsertRemoved]_vars

\* C18: in single-threaded use, no step of insert_after(t, n) on a removed t
\* changes head, tail or a link of a member, the call does not return true,
\* and when it has returned false n is not reachable from head.
C18_InsertAfterRemovedFails ==
  [][\A t \in Threads :
       pc[t] \in InsertAfterPcs /\ loc[t].target \in removed =>
         /\ head' = head /\ tail' = tail
         /\ \A m \in Reach : next'[m] = next[m] /\ prev'[m] = prev[m]
         /\ ret'[loc[t].node] # "true"
         /\ ret'[loc[t].node] = "false" => loc[t].node \notin Reach']_vars
C18_Witness ==
  /\ AllIdle /\ Len(orig) = NumNodes /\ Walk = <<orig[1]>>
  /\ removed = {orig[2], orig[3]} /\ ret[orig[3]] = "false"

-----------------------------------------------------------------------------
(* An iterator and remove calls that do not overlap its operations           *)
(* (tests/lockfreelist_test.cc, IteratorInvalidation): while the iterator    *)
(* rests on a member c, remove is called on c or on its predecessor, and     *)
(* has returned before the iterator is incremented.                          *)

\* The member in front of c, Null for the head.
Pred(c) ==
  IF \E i \in 2..Len(Walk) : Walk[i] = c
    THEN Walk[(CHOOSE i \in 2..Len(Walk) : Walk[i] = c) - 1]
    ELSE Null

\* The nodes the iterator of thread t has rested on, the current one included.
Positions(t) ==
  IF loc[t].cur = Null THEN loc[t].seen ELSE Append(loc[t].seen, loc[t].cur)

NextIterInvalidation ==
  \/ AllIdle /\ IterBegin(MainThread)
  \/ (\A t \in Threads \ {MainThread} : pc[t] = "idle") /\ Iter(MainThread)
  \/ \E t \in Threads \ {MainThread} :
       \/ /\ pc[MainThread] = "it_test" /\ Member(loc[MainThread].cur)
          /\ \E n \in {loc[MainThread].cur, Pred(loc[MainThread].cur)} \ {Null} :
               RemoveCall(t, n, TRUE)
       \/ Remove(t)
SpecIterInvalidation == InitSomeList /\ [][NextIterInvalidation]_vars

\* C20: an iterator resting on member c still rests on c after remove(p) of
\* c's predecessor or remove(c) has returned, and ++ then moves it to the node
\* that followed c: whatever was removed, the iterator rests on the nodes of
\* the list as built, one after the other, and reaches end() after the last.
C20_IteratorSurvivesRemove ==
  pc[MainThread] = "it_test" =>
    LET at == Positions(MainThread)
    IN /\ Len(at) <= Len(orig)
       /\ \A i \in 1..Len(at) : at[i] = orig[i]
       /\ loc[MainThread].cur = Null => Len(at) = Len(orig)
C20_Witness ==
  /\ pc[MainThread] = "it_test" /\ Len(orig) = NumNodes
  /\ loc[MainThread].cur = orig[3] /\ removed = {orig[1], orig[2]}
  /\ \A t \in Threads \ {MainThread} : pc[t] = "idle"

-----------------------------------------------------------------------------
(* Lock_free_list::iterator and const_iterator, lockfreelist.h:39-238, in    *)
(* single-threaded use: the thread that holds the iterator makes every call, *)
(* so that no call overlaps an operator and each operator is one step.       *)

\* what() of the std::runtime_error that each operator throws
DerefError == "Dereferencing null iterator"
IncError == "Incrementing null iterator"
DecError == "Decrementing begin iterator"
\* The operators applied to one iterator are logged up to this many.
MaxOps == NumNodes + 1

\* One logged operator: the iterator before it, the iterator after it, and
\* what it threw ("none": it returned; "crash": the process was killed).
LogEntry(t, op, node2, prev2, err) ==
  [op |-> op, node |-> loc[t].cur, prev |-> loc[t].iprev,
   node2 |-> node2, prev2 |-> prev2, err |-> err]

\* An operator of the iterator of thread t ends: it leaves the iterator at
\* <<node2, prev2>> and has thrown err.
IteratorOp(t, op, node2, prev2, err) ==
  /\ loc' = [loc EXCEPT ![t].cur = node2, ![t].iprev = prev2,
                        ![t].log = Append(@, LogEntry(t, op, node2, prev2, err))]
  /\ pc' = [pc EXCEPT ![t] = IF err = "crash" THEN "crashed" ELSE "bi_rest"]
  /\ UNCHANGED <<mem, hist>>

\* begin(), cbegin(): (const_)iterator(m_head.load(), nullptr)
IteratorBegin(t, c) ==
  /\ pc[t] = "idle"
  /\ loc' = [loc EXCEPT ![t] = [NoLocals EXCEPT !.cur = head, !.konst = c]]
  /\ Goto(t, "bi_rest")
  /\ UNCHANGED <<mem, hist>>

\* end(), cend(): (const_)iterator(nullptr, m_tail.load())
IteratorEnd(t, c) ==
  /\ pc[t] = "idle"
  /\ loc' = [loc EXCEPT ![t] = [NoLocals EXCEPT !.iprev = tail, !.konst = c]]
  /\ Goto(t, "bi_rest")
  /\ UNCHANGED <<mem, hist>>

\* The iterator goes out of scope.
IteratorDrop(t) ==
  /\ pc[t] = "bi_rest"
  /\ Return(t)
  /\ UNCHANGED <<mem, hist>>

\* A variant of operator* that returns the null node instead of throwing.
OperatorDerefNoThrow(t) ==
  /\ pc[t] = "bi_rest" /\ Len(loc[t].log) < MaxOps
  /\ IteratorOp(t, "*", loc[t].cur, loc[t].iprev, "none")

\* operator*, operator->: throw if m_node is null, else return the node
OperatorDeref(t) ==
  /\ pc[t] = "bi_rest" /\ Len(loc[t].log) < MaxOps
  /\ IteratorOp(t, "*", loc[t].cur, loc[t].iprev,
                IF loc[t].cur = Null THEN DerefError ELSE "none")

RECURSIVE IncRecover(_, _)
\* operator++: while (m_node != nullptr && m_node->m_prev.load() != m_prev)
\*   { m_node = m_node->m_next.load(); if (m_node) m_prev = m_node->m_prev.load(); }
IncRecover(node, pr) ==
  IF node # Null /\ prev[node] # pr
    THEN IncRecover(next[node], IF next[node] # Null THEN prev[next[node]] ELSE pr)
    ELSE <<node, pr>>

\* A variant of operator++ that steps over the node that follows m_node.
OperatorIncSkip(t) ==
  /\ pc[t] = "bi_rest" /\ Len(loc[t].log) < MaxOps
  /\ LET node == loc[t].cur
         pr == loc[t].iprev
     IN IF node = Null
          THEN IteratorOp(t, "++", node, pr, IncError)
          ELSE IF next[node] = Null
            THEN IteratorOp(t, "++", Null, node, "none")
            ELSE IteratorOp(t, "++", next[next[node]], next[node], "none")

\* A variant of operator++ that moves m_node and leaves m_prev as it was.
OperatorIncKeepPrev(t) ==
  /\ pc[t] = "bi_rest" /\ Len(loc[t].log) < MaxOps
  /\ LET node == loc[t].cur
         pr == loc[t].iprev
     IN IF node = Null
          THEN IteratorOp(t, "++", node, pr, IncError)
          ELSE IteratorOp(t, "++", next[node], pr, "none")

\* operator++ of both flavours
OperatorInc(t) ==
  /\ pc[t] = "bi_rest" /\ Len(loc[t].log) < MaxOps
  /\ LET node == loc[t].cur
         pr == loc[t].iprev
     IN IF node = Null
          THEN IteratorOp(t, "++", node, pr, IncError)
          ELSE IF prev[node] # pr
            THEN IteratorOp(t, "++", IncRecover(node, pr)[1], IncRecover(node, pr)[2], "none")
            ELSE IteratorOp(t, "++", next[node], node, "none")

RECURSIVE DecRecover(_, _)
\* operator--: while (m_prev != nullptr && m_prev->m_next.load() != m_node)
\*   { m_prev = m_prev->m_prev.load(); if (m_prev) m_node = m_prev->m_next.load(); }
DecRecover(node, pr) ==
  IF pr # Null /\ next[pr] # node
    THEN DecRecover(IF prev[pr] # Null THEN next[prev[pr]] ELSE node, prev[pr])
    ELSE <<node, pr>>

\* The guard of operator--: the iterator tests m_node, the const_iterator m_prev.
DecThrows(t) ==
  IF loc[t].konst THEN loc[t].iprev = Null ELSE loc[t].cur = Null

\* operator-- of both flavours.  With m_prev null and no throw, the loads
\* m_prev->m_prev and m_prev->m_next read through a null pointer: the process
\* is killed, or the loads yield some values gp and gn and the operator goes on.
OperatorDec(t) ==
  /\ pc[t] = "bi_rest" /\ Len(loc[t].log) < MaxOps
  /\ LET node == loc[t].cur
         pr == loc[t].iprev
     IN IF DecThrows(t)
          THEN IteratorOp(t, "--", node, pr, DecError)
          ELSE IF pr = Null
            THEN \/ IteratorOp(t, "--", node, pr, "crash")
                 \/ \E gp, gn \in Nodes \cup {Null} :
                      IF gn # node
                        THEN IteratorOp(t, "--", node, pr, "none")
                        ELSE IteratorOp(t, "--", pr, gp, "none")
            ELSE IF next[pr] # node
              THEN IteratorOp(t, "--", DecRecover(node, pr)[1], DecRecover(node, pr)[2], "none")
              ELSE IteratorOp(t, "--", pr, prev[pr], "none")

-----------------------------------------------------------------------------
(* Single-threaded use of the iterators: one thread builds a list with       *)
(* push_front and push_back, and between two calls creates an iterator with  *)
(* begin() or end() and applies operators to it.                             *)

SpecBidirectional ==
  /\ InitEmpty
  /\ [][\/ \E n \in Nodes : PushFrontCall(MainThread, n)
        \/ \E n \in Nodes : PushBackCall(MainThread, n)
        \/ PushFront(MainThread)
        \/ PushBack(MainThread)
        \/ \E c \in BOOLEAN : IteratorBegin(MainThread, c)
        \/ \E c \in BOOLEAN : IteratorEnd(MainThread, c)
        \/ OperatorDeref(MainThread)
        \/ OperatorInc(MainThread)
        \/ OperatorDec(MainThread)
        \/ IteratorDrop(MainThread)]_vars

\* The iterator of thread t was created by end() and only -- was applied to it.
OnlyDecFromEnd(t) ==
  /\ pc[t] \in {"bi_rest", "crashed"} /\ loc[t].log # <<>>
  /\ loc[t].log[1].node = Null
  /\ \A i \in 1..Len(loc[t].log) : loc[t].log[i].op = "--"

\* C21: on a list of k >= 1 nodes, the i-th -- applied to end(), for i up to
\* k, returns and leaves the iterator on the i-th node from the tail: the
\* first on the tail node, the k-th on the head node.
C21_DecrementFromEnd ==
  \A t \in Threads :
    OnlyDecFromEnd(t) =>
      \A i \in 1..Len(loc[t].log) :
        i <= Len(Walk) =>
          /\ loc[t].log[i].err = "none"
          /\ loc[t].log[i].node2 = Walk[Len(Walk) + 1 - i]

\* The step applies operator op to the iterator that thread t holds.
Applies(t, op) ==
  /\ pc[t] = "bi_rest"
  /\ Len(loc'[t].log) = Len(loc[t].log) + 1
  /\ loc'[t].log[Len(loc'[t].log)].op = op

\* C22: -- applied to an iterator whose m_prev is null and whose m_node is a
\* node (begin() of a non-empty list) throws the decrement error, whatever
\* the flavour, and head, tail and the links of all nodes stay as they were.
C22_DecrementBeginThrows ==
  [][\A t \in Threads :
       Applies(t, "--") /\ loc[t].iprev = Null /\ loc[t].cur # Null =>
         /\ loc'[t].log[Len(loc'[t].log)].err = DecError
         /\ mem' = mem]_vars

\* C23: operator* and operator-> applied to an iterator whose m_node is null
\* (end(), or begin() of an empty list) throw the dereference error, and
\* head, tail and the links of all nodes stay as they were.
C23_DerefNullThrows ==
  [][\A t \in Threads :
       Applies(t, "*") /\ loc[t].cur = Null =>
         /\ loc'[t].log[Len(loc'[t].log)].err = DerefError
         /\ mem' = mem]_vars
\* end() of a list of NumNodes nodes was dereferenced, and so was, after two
\* decrements, the iterator they left.
C23_Witness ==
  /\ pc[MainThread] = "bi_rest" /\ Len(Walk) = NumNodes
  /\ Len(loc[MainThread].log) = 4
  /\ loc[MainThread].log[1].op = "*" /\ loc[MainThread].log[1].node = Null
  /\ loc[MainThread].log[1].prev = tail
  /\ loc[MainThread].log[1].err = DerefError
  /\ loc[MainThread].log[4].op = "*" /\ loc[MainThread].log[4].err = "none"

\* C25: for an iterator on a member that is not the last, ++ followed by --
\* leaves it on the same node; for an iterator on a member that is not the
\* first, -- followed by ++ leaves it on the same node.  Neither throws.
C25_IncDecRoundTrip ==
  \A t \in Threads :
    pc[t] = "bi_rest" =>
      \A i \in 1..(Len(loc[t].log) - 1) :
        LET a == loc[t].log[i]
            b == loc[t].log[i + 1]
            back == a.err = "none" /\ b.err = "none" /\ b.node2 = a.node
        IN /\ a.node \in Reach /\ a.node # tail /\ a.op = "++" /\ b.op = "--" => back
           /\ a.node \in Reach /\ a.node # head /\ a.op = "--" /\ b.op = "++" => back
\* begin() of a list of NumNodes nodes after ++, ++, --, ++: a round trip
\* from the second node and one from the third.
C25_Witness ==
  /\ pc[MainThread] = "bi_rest" /\ Len(Walk) = NumNodes
  /\ Len(loc[MainThread].log) = 4
  /\ loc[MainThread].log[1].node = head
  /\ loc[MainThread].log[2].op = "++" /\ loc[MainThread].log[2].node = Walk[2]
  /\ loc[MainThread].log[3].op = "--" /\ loc[MainThread].log[3].node = Walk[3]
  /\ loc[MainThread].log[4].op = "++" /\ loc[MainThread].log[4].node2 = Walk[3]

\* The iterator of thread t was created by begin() and only ++ was applied to it.
OnlyIncFromBegin(t) ==
  /\ pc[t] = "bi_rest"
  /\ loc[t].log = <<>> => loc[t].cur = head /\ loc[t].iprev = Null
  /\ loc[t].log # <<>> => loc[t].log[1].node = head /\ loc[t].log[1].prev = Null
  /\ \A i \in 1..Len(loc[t].log) : loc[t].log[i].op = "++"

\* C24: on a list built by push_front and push_back calls of one thread, the
\* i-th ++ applied to begin() finds the iterator on the i-th node reachable
\* from head and leaves it on the next one, and the iterator equals end()
\* (m_node is null) exactly after as many ++ as there are members; on the
\* empty list begin() equals end() at once.
C24_ForwardIteration ==
  \A t \in Threads :
    OnlyIncFromBegin(t) =>
      /\ \A i \in 1..Len(loc[t].log) :
           i <= Len(Walk) =>
             /\ loc[t].log[i].err = "none"
             /\ loc[t].log[i].node = Walk[i]
             /\ loc[t].log[i].node2 = (IF i < Len(Walk) THEN Walk[i + 1] ELSE Null)
      /\ Len(loc[t].log) < Len(Walk) => loc[t].cur # Null
      /\ Len(loc[t].log) = Len(Walk) => loc[t].cur = Null
\* begin() of a list of NumNodes nodes, built with both push_front and
\* push_back, has been incremented to end().
C24_Witness ==
  /\ OnlyIncFromBegin(MainThread) /\ Len(Walk) = NumNodes
  /\ Len(loc[MainThread].log) = NumNodes /\ loc[MainThread].cur = Null
  /\ Walk = <<2, 1, 3>>

-----------------------------------------------------------------------------
(* Single-threaded find_if and find on lists that one thread builds with     *)
(* push_front and push_back and from which it removes members.               *)

\* DataNode::m_value of node n; two nodes may hold the same value.
Value(n) == (n + 1) \div 2

\* find_if(pred), with pred true of the nodes in P
FindIfCall(t, P) ==
  /\ pc[t] = "idle"
  /\ loc' = [loc EXCEPT ![t] = [NoLocals EXCEPT !.pred = P]]
  /\ Goto(t, "fi_load_head")
  /\ UNCHANGED <<mem, hist>>

\* find(v): find_if([&value](const T* node) { return node->m_value == value; })
FindCall(t, v) ==
  /\ pc[t] = "idle"
  /\ loc' = [loc EXCEPT ![t] = [NoLocals EXCEPT !.target = v,
                                                !.pred = {n \in Nodes : Value(n) = v}]]
  /\ Goto(t, "fi_load_head")
  /\ UNCHANGED <<mem, hist>>

SpecSeqFind ==
  /\ InitEmpty
  /\ [][\/ \E n \in Nodes : PushFrontCall(MainThread, n)
        \/ \E n \in Nodes : PushBackCall(MainThread, n)
        \/ \E n \in Nodes : RemoveCall(MainThread, n, TRUE)
        \/ \E P \in SUBSET Nodes : FindIfCall(MainThread, P)
        \/ \E v \in 1..NumNodes : FindCall(MainThread, v)
        \/ PushFront(MainThread)
        \/ PushBack(MainThread)
        \/ Remove(MainThread)
        \/ FindIf(MainThread)]_vars

\* The first node of s that is in P, Null when s has none.
FirstIn(s, P) ==
  IF \E i \in 1..Len(s) : s[i] \in P
    THEN s[CHOOSE i \in 1..Len(s) : s[i] \in P /\ \A j \in 1..(i - 1) : s[j] \notin P]
    ELSE Null

\* C26: in single-threaded use, find_if returns the first node in forward
\* order that satisfies the predicate and nullptr when no member does (on the
\* empty list in particular); find(v) returns the first member whose value
\* is v.  The node returned is loc.cur at the step that returns.
C26_FindReturnsFirst ==
  [][\A t \in Threads :
       pc[t] \in FindIfPcs /\ pc'[t] = "idle" =>
         /\ loc[t].cur = FirstIn(Walk, loc[t].pred)
         /\ loc[t].target # Null =>
              loc[t].cur = FirstIn(Walk, {n \in Nodes : Value(n) = loc[t].target})]_vars
\* find_if is about to return the last member, one of two nodes that
\* satisfy the predicate; the other one was removed from the list.
C26_Witness ==
  /\ pc[MainThread] = "fi_check_prev" /\ Len(Walk) = NumNodes - 1
  /\ loc[MainThread].cur = Walk[Len(Walk)]
  /\ Cardinality(loc[MainThread].pred) = 2
  /\ loc[MainThread].pred \cap removed # {}
  /\ next[loc[MainThread].lprev] = loc[MainThread].cur

-----------------------------------------------------------------------------
(* Single-threaded use of push_front, push_back, remove and insert_after.    *)
(* In these specifications orig is the sequence that the calls made so far   *)
(* are to leave: each call updates it from its arguments alone.              *)

\* push_front(n): n goes in front of the sequence
SeqPushFrontCall(t, n) ==
  /\ pc[t] = "idle" /\ n \in fresh
  /\ fresh' = fresh \ {n}
  /\ orig' = <<n>> \o orig
  /\ loc' = [loc EXCEPT ![t] = [NoLocals EXCEPT !.node = n]]
  /\ Goto(t, "pf_init_next")
  /\ UNCHANGED <<mem, rmBy, removed, ret>>

\* push_back(n): n goes behind the sequence
SeqPushBackCall(t, n) ==
  /\ pc[t] = "idle" /\ n \in fresh
  /\ fresh' = fresh \ {n}
  /\ orig' = Append(orig, n)
  /\ loc' = [loc EXCEPT ![t] = [NoLocals EXCEPT !.node = n]]
  /\ Goto(t, "pb_init_next")
  /\ UNCHANGED <<mem, rmBy, removed, ret>>

\* The sequence links as a list should: head and tail are its ends, and next
\* and prev lead from each of its nodes to its neighbours.
LinkedAs(s) ==
  /\ Walk = s
  /\ head = (IF s = <<>> THEN Null ELSE s[1])
  /\ tail = (IF s = <<>> THEN Null ELSE s[Len(s)])
  /\ \A i \in 1..Len(s) :
       /\ next[s[i]] = (IF i < Len(s) THEN s[i + 1] ELSE Null)
       /\ prev[s[i]] = (IF i > 1 THEN s[i - 1] ELSE Null)

SpecSeqPushFront ==
  /\ InitEmpty
  /\ [][\E t \in Threads :
          \/ AllIdle /\ \E n \in Nodes : SeqPushFrontCall(t, n)
          \/ PushFront(t)]_vars

\* C27: when one call at a time has made push_front(n1), ..., push_front(nk)
\* on the empty list and the last has returned, following next from head
\* yields nk, ..., n1; head is nk and its prev is null; tail is n1 and its
\* next is null.
C27_PushFrontOrder ==
  AllIdle => LinkedAs(orig)
C27_Witness ==
  /\ AllIdle /\ orig = <<2, 3, 1>> /\ Walk = orig

SpecSeqPushBack ==
  /\ InitEmpty
  /\ [][\E t \in Threads :
          \/ AllIdle /\ \E n \in Nodes : SeqPushBackCall(t, n)
          \/ PushBack(t)]_vars

\* C28: when one call at a time has made push_back(n1), ..., push_back(nk) on
\* the empty list and the last has returned, the forward traversal yields
\* n1, ..., nk, so that a node pushed before another precedes it, and tail
\* is nk with next null.
C28_PushBackOrder ==
  AllIdle =>
    /\ Walk = orig
    /\ orig # <<>> => tail = orig[Len(orig)] /\ next[tail] = Null
C28_Witness ==
  /\ AllIdle /\ orig = <<2, 3, 1>> /\ Walk = orig /\ tail = 1

\* remove(n) of a member: n leaves the sequence
SeqRemoveCall(t, n) ==
  /\ pc[t] = "idle" /\ Member(n) /\ rmBy[n] = {}
  /\ rmBy' = [rmBy EXCEPT ![n] = @ \cup {t}]
  /\ orig' = Without(orig, n)
  /\ loc' = [loc EXCEPT ![t] = [NoLocals EXCEPT !.node = n]]
  /\ Goto(t, "rm_load_prev")
  /\ UNCHANGED <<mem, fresh, removed, ret>>

\* The sequence s with n put right behind x.
InsertedAfter(s, x, n) ==
  LET i == CHOOSE j \in 1..Len(s) : s[j] = x
  IN SubSeq(s, 1, i) \o <<n>> \o SubSeq(s, i + 1, Len(s))

\* insert_after(x, n) with x a member and n a new node: n goes right behind x
SeqInsertAfterCall(t, x, n) ==
  /\ pc[t] = "idle" /\ n \in fresh /\ Member(x)
  /\ fresh' = fresh \ {n}
  /\ orig' = InsertedAfter(orig, x, n)
  /\ loc' = [loc EXCEPT ![t] = [NoLocals EXCEPT !.node = n, !.target = x]]
  /\ Goto(t, "ia_init_next")
  /\ UNCHANGED <<mem, rmBy, removed, ret>>

SpecSequential ==
  /\ InitEmpty
  /\ [][\/ \E n \in Nodes : SeqPushFrontCall(MainThread, n)
        \/ \E n \in Nodes : SeqPushBackCall(MainThread, n)
        \/ \E n \in Nodes : SeqRemoveCall(MainThread, n)
        \/ \E x, n \in Nodes : SeqInsertAfterCall(MainThread, x, n)
        \/ PushFront(MainThread)
        \/ PushBack(MainThread)
        \/ Remove(MainThread)
        \/ InsertAfter(MainThread)]_vars

\* C29: in single-threaded use, when remove(n) of a member returns, be the
\* member the head, a middle node, the tail or the only node, the forward
\* traversal is the sequence before the call without n, in the same order,
\* head and tail are its ends, and the nodes that were next to n point at
\* each other.
C29_RemoveKeepsOrder ==
  [][\A t \in Threads :
       pc[t] = "rm_relink" /\ pc'[t] = "idle" =>
         /\ Walk' = orig
         /\ head' = (IF orig = <<>> THEN Null ELSE orig[1])
         /\ tail' = (IF orig = <<>> THEN Null ELSE orig[Len(orig)])
         /\ loc[t].lprev # Null => next'[loc[t].lprev] = loc[t].lnext
         /\ loc[t].lnext # Null => prev'[loc[t].lnext] = loc[t].lprev]_vars
\* Of three members, the middle one, the tail and the head have been removed
\* one after the other, and the list is empty.
C29_Witness ==
  /\ AllIdle /\ removed = Nodes /\ head = Null /\ tail = Null
  /\ next[2] = 3 /\ prev[2] = 1 /\ next[3] = Null /\ prev[3] = 1
  /\ next[1] = Null /\ prev[1] = Null

\* C30: in single-threaded use, insert_after(x, n) with x a member and n a
\* new node returns true; when it returns, the forward traversal is the
\* sequence before the call with n right behind x and the other nodes in
\* the order they had, and if x was the tail then tail is n.
C30_InsertAfterPlaces ==
  [][\A t \in Threads :
       pc[t] \in InsertAfterPcs /\ pc'[t] = "idle" =>
         /\ ret'[loc[t].node] = "true"
         /\ Walk' = orig
         /\ \E i \in 1..(Len(orig) - 1) :
              orig[i] = loc[t].target /\ orig[i + 1] = loc[t].node
         /\ orig[Len(orig)] = loc[t].node => tail' = loc[t].node]_vars
\* Behind the only node 1, node 2 was inserted and became the tail; then
\* node 3 was inserted between the two.
C30_Witness ==
  /\ AllIdle /\ Walk = <<1, 3, 2>> /\ tail = 2
  /\ ret[2] = "true" /\ ret[3] = "true"

-----------------------------------------------------------------------------
(* Lock_free_list::clear, lockfreelist.h:468-472, and the push of a node     *)
(* that was taken out of the list before.                                    *)

\* clear(): the members at the call are remembered in loc.snap
ClearCall(t) ==
  /\ pc[t] = "idle"
  /\ loc' = [loc EXCEPT ![t] = [NoLocals EXCEPT !.snap = Reach]]
  /\ Goto(t, "cl_head")
  /\ UNCHANGED <<mem, hist>>

\* m_head.store(nullptr)
ClearHead(t) ==
  /\ pc[t] = "cl_head"
  /\ head' = Null
  /\ Goto(t, "cl_tail")
  /\ UNCHANGED <<tail, next, prev, loc, hist>>

\* A buggy variant: the tail is left as it was.
ClearTailSkip(t) ==
  /\ pc[t] = "cl_tail"
  /\ removed' = removed \cup loc[t].snap
  /\ Return(t)
  /\ UNCHANGED <<mem, fresh, rmBy, ret, orig>>

\* m_tail.store(nullptr); return.  The former members count as removed.
ClearTail(t) ==
  /\ pc[t] = "cl_tail"
  /\ tail' = Null
  /\ removed' = removed \cup loc[t].snap
  /\ Return(t)
  /\ UNCHANGED <<head, next, prev, fresh, rmBy, ret, orig>>

\* push_front(n) (label "pf_init_next") or push_back(n) (label "pb_init_next")
\* of a node that a returned remove or clear call took out of the list
RepushCall(t, n, label) ==
  /\ pc[t] = "idle" /\ n \in removed
  /\ removed' = removed \ {n}
  /\ rmBy' = [rmBy EXCEPT ![n] = {}]
  /\ loc' = [loc EXCEPT ![t] = [NoLocals EXCEPT !.node = n]]
  /\ Goto(t, label)
  /\ UNCHANGED <<mem, fresh, ret, orig>>

\* Single-threaded use: pushes, clear, pushes of cleared nodes, find_if, and
\* begin() and end().
SpecClear ==
  /\ InitEmpty
  /\ [][\/ \E n \in Nodes : PushFrontCall(MainThread, n)
        \/ \E n \in Nodes : PushBackCall(MainThread, n)
        \/ \E n \in Nodes : RepushCall(MainThread, n, "pf_init_next")
        \/ \E n \in Nodes : RepushCall(MainThread, n, "pb_init_next")
        \/ ClearCall(MainThread)
        \/ \E P \in SUBSET Nodes : FindIfCall(MainThread, P)
        \/ \E c \in BOOLEAN : IteratorBegin(MainThread, c)
        \/ \E c \in BOOLEAN : IteratorEnd(MainThread, c)
        \/ PushFront(MainThread)
        \/ PushBack(MainThread)
        \/ ClearHead(MainThread)
        \/ ClearTail(MainThread)
        \/ FindIf(MainThread)
        \/ IteratorDrop(MainThread)]_vars

\* clear() has returned and no node has been pushed since.
Cleared == removed # {} /\ fresh \cup removed = Nodes

\* C31: no step of clear() changes a next or prev link, and when clear()
\* returns head and tail are null; then an iterator just obtained from begin()
\* or end() has a null m_node, so that begin() == end(), and find_if returns
\* null; and when the push of a former member on the cleared list returns,
\* that node is the only member.
C31_ClearResets ==
  [][\A t \in Threads :
       /\ pc[t] \in {"cl_head", "cl_tail"} => next' = next /\ prev' = prev
       /\ pc[t] = "cl_tail" /\ pc'[t] = "idle" => head' = Null /\ tail' = Null
       /\ Cleared /\ pc[t] = "idle" /\ pc'[t] = "bi_rest" => loc'[t].cur = Null
       /\ Cleared /\ pc[t] \in FindIfPcs /\ pc'[t] = "idle" => loc[t].cur = Null
       /\ (/\ pc[t] \in {"pf_fix", "pb_empty_tail", "pb_cas"} /\ pc'[t] = "idle"
           /\ fresh \cup removed = Nodes \ {loc[t].node}) =>
            /\ Walk' = <<loc[t].node>>
            /\ head' = loc[t].node /\ tail' = loc[t].node
            /\ next'[loc[t].node] = Null /\ prev'[loc[t].node] = Null]_vars
\* Nodes 1 and 2 were members together, clear() took them out, and node 1 was
\* pushed again: it is the only member, and node 2 keeps its link to it.
C31_Witness ==
  /\ AllIdle /\ Walk = <<1>> /\ tail = 1 /\ removed = {2} /\ next[2] = 1

-----------------------------------------------------------------------------
(* ut::Lock_free_list::insert_after, part_003:441-476.  new_node is not      *)
(* reachable before the compare-exchange succeeds, so the two stores of      *)
(* init() are one step, and so are the two stores that set its links.        *)

\* The nodes whose remove has returned when the call is made are remembered
\* in loc.snap.
TInsertAfterCall(t, target, n) ==
  /\ pc[t] = "idle" /\ n \in fresh
  /\ fresh' = fresh \ {n}
  /\ ret' = [ret EXCEPT ![n] = "none"]
  /\ loc' = [loc EXCEPT ![t] = [NoLocals EXCEPT !.node = n, !.target = target,
                                                !.snap = removed]]
  /\ Goto(t, "tia_init")
  /\ UNCHANGED <<mem, rmBy, removed, orig>>

\* new_node->init()
TInsertAfterInit(t) ==
  /\ pc[t] = "tia_init"
  /\ next' = [next EXCEPT ![loc[t].node] = Null]
  /\ prev' = [prev EXCEPT ![loc[t].node] = Null]
  /\ Goto(t, "tia_load_next")
  /\ UNCHANGED <<head, tail, loc, hist>>

\* next_tagged = node->m_next.load()
TInsertAfterLoadNext(t) ==
  /\ pc[t] = "tia_load_next"
  /\ loc' = [loc EXCEPT ![t].lnext = next[loc[t].target]]
  /\ Goto(t, "tia_store")
  /\ UNCHANGED <<mem, hist>>

\* new_node->m_prev.store(Tag{node, 0}); new_node->m_next.store(Tag{next_tagged.m_ptr, 0})
TInsertAfterStore(t) ==
  /\ pc[t] = "tia_store"
  /\ prev' = [prev EXCEPT ![loc[t].node] = TTagNode(loc[t].target, 0)]
  /\ next' = [next EXCEPT ![loc[t].node] = TTag(loc[t].lnext, 0)]
  /\ Goto(t, "tia_cas")
  /\ UNCHANGED <<head, tail, loc, hist>>

\* node->m_next.compare_exchange_weak(next_tagged,
\*   Tag{new_node, next_tagged.version() + 1}); retry on failure
TInsertAfterCas(t) ==
  /\ pc[t] = "tia_cas"
  /\ IF next[loc[t].target] = loc[t].lnext
       THEN /\ next' = [next EXCEPT ![loc[t].target] =
                          TTagNode(loc[t].node, TVersion(loc[t].lnext) + 1)]
            /\ Goto(t, IF TPtr(loc[t].lnext) # Null THEN "tia_load_nprev" ELSE "tia_load_tail")
       ELSE next' = next /\ Goto(t, "tia_load_next")
  /\ UNCHANGED <<head, tail, prev, loc, hist>>

TInsertAfterCasSpurious(t) ==
  /\ pc[t] = "tia_cas" /\ next[loc[t].target] = loc[t].lnext
  /\ Goto(t, "tia_load_next")
  /\ UNCHANGED <<mem, loc, hist>>

\* next_prev = next_tagged->m_prev.load()
TInsertAfterLoadNextPrev(t) ==
  /\ pc[t] = "tia_load_nprev"
  /\ loc' = [loc EXCEPT ![t].lprev = prev[TPtr(loc[t].lnext)]]
  /\ Goto(t, "tia_store_nprev")
  /\ UNCHANGED <<mem, hist>>

\* next_tagged->m_prev.store(Tag{new_node, next_prev.version() + 1}); return true
TInsertAfterStoreNextPrev(t) ==
  /\ pc[t] = "tia_store_nprev"
  /\ prev' = [prev EXCEPT ![TPtr(loc[t].lnext)] =
                TTagNode(loc[t].node, TVersion(loc[t].lprev) + 1)]
  /\ ret' = [ret EXCEPT ![loc[t].node] = "true"]
  /\ Return(t)
  /\ UNCHANGED <<head, tail, next, fresh, rmBy, removed, orig>>

\* old_tail = m_tail.load()
TInsertAfterLoadTail(t) ==
  /\ pc[t] = "tia_load_tail"
  /\ loc' = [loc EXCEPT ![t].old = tail]
  /\ Goto(t, "tia_cas_tail")
  /\ UNCHANGED <<mem, hist>>

\* if (old_tail == node) m_tail.compare_exchange_strong(old_tail,
\*   Tag{new_node, old_tail.version() + 1}); return true
TInsertAfterCasTail(t) ==
  /\ pc[t] = "tia_cas_tail"
  /\ tail' = IF TPtr(loc[t].old) = loc[t].target /\ tail = loc[t].old
               THEN TTagNode(loc[t].node, TVersion(loc[t].old) + 1)
               ELSE tail
  /\ ret' = [ret EXCEPT ![loc[t].node] = "true"]
  /\ Return(t)
  /\ UNCHANGED <<head, next, prev, fresh, rmBy, removed, orig>>

TInsertAfter(t) ==
  \/ TInsertAfterInit(t) \/ TInsertAfterLoadNext(t) \/ TInsertAfterStore(t)
  \/ TInsertAfterCas(t) \/ TInsertAfterCasSpurious(t) \/ TInsertAfterLoadNextPrev(t)
  \/ TInsertAfterStoreNextPrev(t) \/ TInsertAfterLoadTail(t) \/ TInsertAfterCasTail(t)

-----------------------------------------------------------------------------
(* Single-threaded use of the tagged list.  orig is the sequence a reference *)
(* list holds: each call updates it from its arguments alone.                *)

\* A call of push_front(n), push_back(n), remove(n) or insert_after(x, n) made
\* by thread t, which leaves the reference list as s.
TSeqCall(t, label, x, n, s) ==
  /\ pc[t] = "idle"
  /\ IF label = "trm_load_prev"
       THEN TMember(n) /\ rmBy[n] = {} /\ fresh' = fresh
            /\ rmBy' = [rmBy EXCEPT ![n] = {t}]
       ELSE n \in fresh /\ fresh' = fresh \ {n} /\ rmBy' = rmBy
  /\ label = "tia_init" => TMember(x)
  /\ orig' = s
  /\ loc' = [loc EXCEPT ![t] = [NoLocals EXCEPT !.node = n, !.target = x]]
  /\ Goto(t, label)
  /\ UNCHANGED <<mem, removed, ret>>

SpecTSequential ==
  /\ InitEmpty
  /\ [][\/ \E n \in Nodes :
             \/ TSeqCall(MainThread, "tpf_init_next", Null, n, <<n>> \o orig)
             \/ TSeqCall(MainThread, "tpb_init_next", Null, n, Append(orig, n))
             \/ TSeqCall(MainThread, "trm_load_prev", Null, n, Without(orig, n))
             \/ \E x \in Nodes :
                  TSeqCall(MainThread, "tia_init", x, n, InsertedAfter(orig, x, n))
        \/ TPushFront(MainThread)
        \/ TPushBack(MainThread)
        \/ TRemove(MainThread)
        \/ TInsertAfter(MainThread)]_vars

\* C32: in single-threaded use of the tagged list, whenever no call is in
\* progress, following next from head yields the sequence the reference list
\* holds, and tail is its last node, null when it is empty.
C32_TaggedMatchesReference ==
  AllIdle =>
    /\ TWalk = orig
    /\ TPtr(tail) = (IF orig = <<>> THEN Null ELSE orig[Len(orig)])

-----------------------------------------------------------------------------
(* Concurrent push_back calls on the tagged list, which is empty or holds    *)
(* nodes at first.  Each new node is pushed by one thread, its owner, and a  *)
(* thread pushes its nodes in increasing order.                              *)

\* The thread that pushes node n.
Owner(n) == ((n - 1) % NumThreads) + 1

SpecTPushBack ==
  /\ InitEmpty \/ \E k \in 1..(NumNodes - 1) : TListOf(k)
  /\ [][\E t \in Threads :
          \/ \E n \in Nodes :
               /\ Owner(n) = t
               /\ \A m \in fresh : Owner(m) = t => n <= m
               /\ TPushBackCall(t, n)
          \/ TPushBack(t)]_vars

\* C33: a push_back links its node only behind a node whose next is null;
\* and whenever all calls have returned, every node of the initial list and
\* every pushed node is reachable from head exactly once, the initial nodes
\* first, the nodes pushed by one thread in the order that thread pushed
\* them, and tail is the last reachable node.
C33_ConcurrentPushBack ==
  [][/\ \A t \in Threads :
          pc[t] = "tpb_cas" /\ pc'[t] = "tpb_cas_tail" =>
            TPtr(next[TPtr(loc[t].old)]) = Null
     /\ AllIdle' =>
          /\ SeqSet(TWalk') = Nodes \ fresh' /\ NoDup(TWalk')
          /\ \A i \in 1..Len(orig) : TWalk'[i] = orig[i]
          /\ \A i, j \in (Len(orig) + 1)..Len(TWalk') :
               Owner(TWalk'[i]) = Owner(TWalk'[j]) /\ TWalk'[i] < TWalk'[j] => i < j
          /\ TWalk' # <<>> => TPtr(tail') = TWalk'[Len(TWalk')]]_vars
\* All nodes were pushed on the empty list, the node of the second thread
\* before the two nodes of the first.
C33_Witness ==
  /\ AllIdle /\ orig = <<>> /\ fresh = {} /\ TWalk[1] = 2 /\ Len(TWalk) = NumNodes

-----------------------------------------------------------------------------
(* Tagged list: concurrent push_front calls and remove calls of members,     *)
(* each node removed by one call.                                            *)

SpecTPushFrontRemove ==
  /\ InitEmpty
  /\ [][\E t \in Threads :
          \/ \E n \in Nodes : TPushFrontCall(t, n)
          \/ \E n \in Nodes : TRemoveCall(t, n, TRUE)
          \/ TPushFront(t)
          \/ TRemove(t)]_vars

\* C34: whenever all push_front and remove calls have returned, the prev of
\* the head node is null and every node M that is the next of a node N
\* reachable from head has M.prev = N.
C34_PrevRepaired ==
  AllIdle =>
    /\ TPtr(head) # Null => TPtr(prev[TPtr(head)]) = Null
    /\ \A n \in TReach :
         TPtr(next[n]) # Null => TPtr(prev[TPtr(next[n])]) = n

-----------------------------------------------------------------------------
(* Tagged list: remove calls of members, each node removed by one call, and  *)
(* insert_after calls whose target is a member or a node whose remove has    *)
(* returned.                                                                 *)

SpecTInsertAfterRemoved ==
  /\ \E k \in 1..(NumNodes - 1) : TListOf(k)
  /\ [][\E t \in Threads :
          \/ \E n \in Nodes : TRemoveCall(t, n, TRUE)
          \/ \E x \in TReach \cup removed, n \in Nodes : TInsertAfterCall(t, x, n)
          \/ TRemove(t)
          \/ TInsertAfter(t)]_vars

\* C35: in an insert_after(target, new_node) call made after a remove(target)
\* has returned, the compare-exchange on target.next never succeeds, the call
\* does not return true, and new_node is never the next of target.
C35_NoInsertAfterRemoved ==
  [][\A t \in Threads :
       loc[t].target # Null /\ loc[t].target \in loc[t].snap =>
         /\ pc[t] = "tia_cas" => next'[loc[t].target] = next[loc[t].target]
         /\ pc'[t] = "idle" => ret'[loc[t].node] # "true"
         /\ TPtr(next'[loc[t].target]) # loc[t].node]_vars

-----------------------------------------------------------------------------
(* find_if calls of the main thread concurrent with push_front calls and     *)
(* remove calls of members, each node removed by one call.  While a          *)
(* find_if(pred) call is in progress, no push_front or remove call on a node *)
(* that satisfies pred is.                                                   *)

\* The nodes on which thread t has a push_front or remove call in progress.
Mutated(t) ==
  IF pc[t] \in FindIfPcs \cup {"idle"} THEN {} ELSE {loc[t].node}

\* The nodes that satisfy the predicate of a find_if call in progress.
Sought == UNION {loc[t].pred : t \in {u \in Threads : pc[u] \in FindIfPcs}}

\* find_if(pred), with pred true of the nodes in P; the members that satisfy
\* pred when the call is made are remembered in loc.snap
FindIfOthersCall(t, P) ==
  /\ pc[t] = "idle"
  /\ \A u \in Threads : Mutated(u) \cap P = {}
  /\ loc' = [loc EXCEPT ![t] = [NoLocals EXCEPT !.pred = P, !.snap = P \cap Reach]]
  /\ Goto(t, "fi_load_head")
  /\ UNCHANGED <<mem, hist>>

SpecFindIfOthers ==
  /\ InitEmpty
  /\ [][\E t \in Threads :
          \/ \E n \in Nodes \ Sought : PushFrontCall(t, n)
          \/ \E n \in Nodes \ Sought : RemoveCall(t, n, TRUE)
          \/ \E P \in SUBSET Nodes : t = MainThread /\ FindIfOthersCall(t, P)
          \/ PushFront(t)
          \/ Remove(t)
          \/ FindIf(t)]_vars

-----------------------------------------------------------------------------
(* Concurrent push_front calls and remove calls of members, each member      *)
(* removed by one call; node 1 may be pushed again, any number of times,     *)
(* whenever its remove has returned.                                         *)

SpecPushRemoveRepush ==
  /\ InitEmpty
  /\ [][\E t \in Threads :
          \/ \E n \in Nodes : PushFrontCall(t, n)
          \/ RepushCall(t, 1, "pf_init_next")
          \/ \E n \in Nodes : RemoveCall(t, n, TRUE)
          \/ PushFront(t)
          \/ Remove(t)]_vars

\* C37: in every reachable state, following next from head visits no node
\* twice and ends at null.
C37_NextChainAcyclic ==
  /\ NoDup(Walk)
  /\ Walk # <<>> => next[Walk[Len(Walk)]] = Null

-----------------------------------------------------------------------------
(* insert_after on members concurrent with push_front and push_back calls    *)
(* and remove calls of members, each node removed by one call.               *)

SpecInsertAfterAll ==
  /\ InitSomeList
  /\ [][\E t \in Threads :
          \/ \E n \in Nodes : PushFrontCall(t, n)
          \/ \E n \in Nodes : PushBackCall(t, n)
          \/ \E n \in Nodes : RemoveCall(t, n, TRUE)
          \/ \E x, n \in Nodes : InsertAfterCall(t, x, n)
          \/ PushFront(t)
          \/ PushBack(t)
          \/ Remove(t)
          \/ InsertAfter(t)]_vars

\* C38: at the step at which insert_after(target, new_node) returns false,
\* new_node is not reachable from head, tail is not new_node, and neither the
\* next nor the prev of a member refers to new_node.
C38_FalseLeavesUnlinked ==
  [][\A t \in Threads :
       pc[t] = "ia_check" /\ pc'[t] = "idle" =>
         /\ loc[t].node \notin Reach'
         /\ tail' # loc[t].node
         /\ \A m \in Reach' : next'[m] # loc[t].node /\ prev'[m] # loc[t].node]_vars

=============================================================================
